---- MODULE Spec2Model ----
(***************************************************************************)
(* Saylani Mass IT Hub: the real-time synchronisation and notification     *)
(* fan-out core (notifications.js, lostfound.js, complaints.js,            *)
(* volunteer.js and the two dashboards), modelled over a document store    *)
(* with point-in-time reads, single writes, atomic batches and live        *)
(* snapshot listeners.                                                     *)
(***************************************************************************)
EXTENDS Integers, Sequences, FiniteSets, TLC

VARIABLES
    notifications,      \* collection "notifications":    id -> document
    lost_found_items,   \* collection "lost_found_items": id -> document
    complaints,         \* collection "complaints":       id -> document
    volunteers,         \* collection "volunteers":       id -> document
    clock,              \* the store's server time, a Timestamp
    procs,              \* the asynchronous calls in flight, one per slot
    delivered,          \* the last listener event and what its callback was handed
    view,               \* the dashboard page: its init call, counters and listeners
    hist                \* history: the call, return and write events so far

vars == <<notifications, lost_found_items, complaints, volunteers, clock,
          procs, delivered, view, hist>>

storeVars == <<notifications, lost_found_items, complaints, volunteers>>

(***************************************************************************)
(* Bounds of the model.                                                    *)
(***************************************************************************)
MaxRegCalls == 3     \* registerVolunteer calls started in one behaviour
MaxNotifications == 2 \* notifications created in one behaviour of the hub
MaxMarkCalls == 2    \* markAllRead calls started in one behaviour
MaxItems == 2        \* records in the store when a model starts from a filled one
MaxStatusCalls == 1  \* status updates started in one behaviour
MaxSeconds == 2      \* the server clock runs over seconds 1..MaxSeconds
MaxNanos == 1        \* and over nanoseconds 0..MaxNanos within a second
MaxBroadcasts == 1   \* broadcasts started in one behaviour
MaxDashDocs == 3     \* notifications in the store when a dashboard opens
MaxCoreCalls == 1    \* calls started in one behaviour of the whole core

Procs == {"p1", "p2"}
Users == {"u1", "u2"}

(***************************************************************************)
(* Server timestamps.  A document written with serverTimestamp() shows a   *)
(* null createdAt to local listeners until the server has acknowledged     *)
(* the write; afterwards createdAt is a Timestamp {seconds, nanoseconds}.  *)
(***************************************************************************)
NoTs == [seconds |-> 0, nanoseconds |-> 0, pending |-> TRUE]

Timestamps ==
    [seconds : 1..MaxSeconds, nanoseconds : 0..MaxNanos, pending : {FALSE}]

TsBefore(a, b) ==
    \/ a.seconds < b.seconds
    \/ a.seconds = b.seconds /\ a.nanoseconds < b.nanoseconds

serverTimestamp == NoTs

LastTs == [seconds |-> MaxSeconds, nanoseconds |-> MaxNanos, pending |-> FALSE]

\* The timestamps the server may assign next: time never runs backwards.
NextStamps == {t \in Timestamps : ~TsBefore(t, clock)}

(***************************************************************************)
(* The document store.  addDoc gives the new document an identifier of     *)
(* the store's choosing; a snapshot lists documents in identifier order.   *)
(* Documents are never deleted.                                            *)
(***************************************************************************)
\* An identifier that is not new: every document gets the same one.
NewIdFixed(coll) == 1

\* Identifiers are opaque: the model numbers the documents of a collection
\* as they are added.  (SpecSync draws its collections, identifiers and
\* timestamps independently, from bounded sets.)
NewId(coll) == Cardinality(DOMAIN coll) + 1

addDoc(coll, id, data) == coll @@ (id :> data)

Pending(coll) == {id \in DOMAIN coll : coll[id].createdAt.pending}

Stamp(coll, id, t) == [coll EXCEPT ![id].createdAt = t]


(***************************************************************************)
(* Calls in flight.  A slot is idle or holds one asynchronous call, which  *)
(* runs from one await to the next in a single step.                       *)
(*                                                                         *)
(* hist is the history the properties read: the number of calls started,   *)
(* and per registration key the last call that returned (last), the call   *)
(* that had returned before that one started (before) and whether two      *)
(* calls for the key were ever in flight together (overlapped).            *)
(***************************************************************************)
Idle == [op |-> "idle"]

IsIdle(p) == procs[p].op = "idle"

\* A call that starts takes a free slot; which one is immaterial.
TakesSlot(p) == IsIdle(p) /\ p = CHOOSE q \in Procs : IsIdle(q)

NoCall == [valid |-> FALSE, ret |-> FALSE, failed |-> FALSE, n0 |-> 0, n1 |-> 0]

\* delivered when no listener callback runs in the step.
NoDelivery == [listener |-> "none", userId |-> "none", kind |-> "none",
               docs |-> <<>>, snap |-> {}, settled |-> FALSE]

\* view when no dashboard page is part of the model.
NoView == [page |-> "none"]

\* The server acknowledges a pending write and assigns its timestamp.
ServerAck ==
    /\ \E t \in NextStamps :
        /\ clock' = t
        /\ \/ \E id \in Pending(volunteers) :
                /\ volunteers' = Stamp(volunteers, id, t)
                /\ UNCHANGED <<notifications, lost_found_items, complaints>>
           \/ \E id \in Pending(notifications) :
                /\ notifications' = Stamp(notifications, id, t)
                /\ UNCHANGED <<volunteers, lost_found_items, complaints>>
           \/ \E id \in Pending(lost_found_items) :
                /\ lost_found_items' = Stamp(lost_found_items, id, t)
                /\ UNCHANGED <<volunteers, notifications, complaints>>
           \/ \E id \in Pending(complaints) :
                /\ complaints' = Stamp(complaints, id, t)
                /\ UNCHANGED <<volunteers, notifications, lost_found_items>>
    /\ delivered' = NoDelivery
    /\ UNCHANGED <<procs, view, hist>>

(***************************************************************************)
(* volunteer.js: registerVolunteer(userId, userName, formData).            *)
(***************************************************************************)
EVENTS == {"community-cleanup", "tech-workshop", "health-camp"}

RegistrationKeys == Users \X EVENTS

\* where("userId", "==", userId), where("eventId", "==", eventId)
RegistrationQuery(userId, eventId) ==
    {id \in DOMAIN volunteers :
        /\ volunteers[id].userId = userId
        /\ volunteers[id].eventId = eventId}

VolunteerDoc(userId, eventId) ==
    [userId |-> userId, eventId |-> eventId, status |-> "Registered",
     createdAt |-> serverTimestamp]

\* History only: the number of records the store holds for a key.
Registered(userId, eventId) ==
    Cardinality({id \in DOMAIN volunteers :
        volunteers[id].userId = userId /\ volunteers[id].eventId = eventId})

RegInFlight(userId, eventId) ==
    {q \in Procs : /\ procs[q].op = "registerVolunteer"
                   /\ procs[q].userId = userId
                   /\ procs[q].eventId = eventId}

\* The submit handler of the volunteer form calls registerVolunteer; the call
\* suspends at its first await.
registerVolunteer(p, userId, eventId) ==
    LET k == <<userId, eventId>> IN
    /\ TakesSlot(p)
    /\ procs' = [procs EXCEPT ![p] =
            [op |-> "registerVolunteer", pc |-> "getDocs", userId |-> userId,
             eventId |-> eventId, snap |-> {}, doc |-> 0,
             n0 |-> Registered(userId, eventId),
             before |-> hist.reg[k].last]]
    /\ hist' = [hist EXCEPT
            !.calls = @ + 1,
            !.reg[k].overlapped = @ \/ RegInFlight(userId, eventId) # {}]
    /\ UNCHANGED <<storeVars, clock, view, delivered>>

\* The call in slot p returns ret to its caller; failed says that it came
\* through its catch block.
RegDone(p, ret, failed) ==
    LET k == <<procs[p].userId, procs[p].eventId>> IN
    /\ procs' = [procs EXCEPT ![p] = Idle]
    /\ hist' = [hist EXCEPT
            !.reg[k].last =
                [valid |-> TRUE, ret |-> ret, failed |-> failed,
                 n0 |-> procs[p].n0,
                 n1 |-> Registered(k[1], k[2])],
            !.reg[k].before = procs[p].before]

\* const snap = await getDocs(q): the point-in-time read of the store, or its
\* failure, which the catch block turns into return false.
RegGetDocs(p) ==
    /\ procs[p].op = "registerVolunteer"
    /\ procs[p].pc = "getDocs"
    /\ \E ok \in BOOLEAN :
        IF ok
        THEN /\ procs' = [procs EXCEPT
                    ![p].pc = "checked",
                    ![p].snap = RegistrationQuery(procs[p].userId,
                                                  procs[p].eventId)]
             /\ UNCHANGED hist
        ELSE RegDone(p, FALSE, TRUE)
    /\ UNCHANGED <<storeVars, clock, view, delivered>>

RegAddDocUnchecked(p) ==
    /\ procs[p].op = "registerVolunteer"
    /\ procs[p].pc = "checked"
    /\ volunteers' = addDoc(volunteers, NewId(volunteers),
            VolunteerDoc(procs[p].userId, procs[p].eventId))
    /\ procs' = [procs EXCEPT ![p].pc = "awaitAdd",
                              ![p].doc = NewId(volunteers)]
    /\ UNCHANGED <<notifications, lost_found_items, complaints, clock, view,
                   delivered, hist>>

\* if (!snap.empty) { showToast(...); return false; } await addDoc(...):
\* the write is issued, or fails and the catch block returns false.
RegAddDoc(p) ==
    /\ procs[p].op = "registerVolunteer"
    /\ procs[p].pc = "checked"
    /\ IF procs[p].snap # {}
       THEN /\ RegDone(p, FALSE, FALSE)
            /\ UNCHANGED volunteers
       ELSE \E ok \in BOOLEAN :
            IF ok
            THEN /\ volunteers' = addDoc(volunteers, NewId(volunteers),
                        VolunteerDoc(procs[p].userId, procs[p].eventId))
                 /\ procs' = [procs EXCEPT ![p].pc = "awaitAdd",
                                           ![p].doc = NewId(volunteers)]
                 /\ UNCHANGED hist
            ELSE /\ RegDone(p, FALSE, TRUE)
                 /\ UNCHANGED volunteers
    /\ UNCHANGED <<notifications, lost_found_items, complaints, clock, view, delivered>>

\* await addDoc(...) resolves once the server has acknowledged the write:
\* showToast(success); return true.
RegReturn(p) ==
    /\ procs[p].op = "registerVolunteer"
    /\ procs[p].pc = "awaitAdd"
    /\ procs[p].doc \notin Pending(volunteers)
    /\ RegDone(p, TRUE, FALSE)
    /\ UNCHANGED <<storeVars, clock, view, delivered>>

(***************************************************************************)
(* Live listeners (listenNotifications, listenUserLostFound,               *)
(* listenAllLostFound, listenUserComplaints, listenAllComplaints,          *)
(* listenUserVolunteers, listenAllVolunteers): every snapshot event maps   *)
(* the snapshot's documents to { id, ...data }, sorts them and hands them  *)
(* to the callback; an error event hands the callback [].                  *)
(***************************************************************************)
\* { id: d.id, ...d.data() }: a field of the data named id would win.
DocData(coll, id) == coll[id] @@ [id |-> id]

\* snapshot.docs: the documents of the query, in identifier order.
RECURSIVE SnapshotDocs(_, _)
SnapshotDocs(coll, ids) ==
    IF ids = {} THEN <<>>
    ELSE LET id == CHOOSE i \in ids : \A j \in ids : i <= j
         IN <<DocData(coll, id)>> \o SnapshotDocs(coll, ids \ {id})

\* a.createdAt?.seconds || 0
CreatedAtSeconds(d) ==
    IF d.createdAt.pending THEN 0 ELSE d.createdAt.seconds

\* Array.prototype.sort with (a, b) => bTime - aTime: a stable sort, so
\* documents that compare equal keep their snapshot order.
RECURSIVE InsertByTime(_, _)
InsertByTime(sorted, d) ==
    IF sorted = <<>> THEN <<d>>
    ELSE IF CreatedAtSeconds(d) - CreatedAtSeconds(Head(sorted)) > 0
         THEN <<d>> \o sorted
         ELSE <<Head(sorted)>> \o InsertByTime(Tail(sorted), d)

RECURSIVE SortNewestFirst(_)
SortNewestFirst(docs) ==
    IF docs = <<>> THEN <<>>
    ELSE InsertByTime(SortNewestFirst(SubSeq(docs, 1, Len(docs) - 1)),
                      docs[Len(docs)])

\* where("userId", "==", userId), or no filter for the admin listeners.
QueryByUser(coll, userId) ==
    {id \in DOMAIN coll : userId = "all" \/ coll[id].userId = userId}

\* The success callback of onSnapshot.
OnSnapshotDocs(coll, userId) ==
    SortNewestFirst(SnapshotDocs(coll, QueryByUser(coll, userId)))

\* History only: the documents matching the listener's predicate at an event.
Matching(coll, userId) ==
    {[id |-> id] @@ coll[id] :
        id \in {i \in DOMAIN coll : userId = "all" \/ coll[i].userId = userId}}

\* const unread = notifs.filter(n => !n.read).length
UnreadCount(docs) == Len(SelectSeq(docs, LAMBDA d : ~d.read))

(***************************************************************************)
(* notifications.js: createNotification, listenNotifications, markAllRead  *)
(* and markOneRead.                                                        *)
(*                                                                         *)
(* History: hist.mar[u].settled says that a markAllRead call for         *)
(* recipient u, with no other writer to u's notifications while it ran,    *)
(* has returned and that nothing has written to them since; .read is the   *)
(* set of u's read notifications at that return, and .idem tells whether a *)
(* call that started in a settled state and ran alone left that set as it  *)
(* was ("same") or not ("differ").                                         *)
(***************************************************************************)
NotificationDocRead(userId, message, type) ==
    [userId |-> userId, message |-> message, type |-> type, read |-> TRUE,
     createdAt |-> serverTimestamp]

NotificationDoc(userId, message, type) ==
    [userId |-> userId, message |-> message, type |-> type, read |-> FALSE,
     createdAt |-> serverTimestamp]

\* History only: the read and the unread notifications of a recipient.
ReadOf(coll, userId) ==
    {id \in DOMAIN coll : coll[id].userId = userId /\ coll[id].read}

UnreadOf(coll, userId) ==
    {id \in DOMAIN coll : coll[id].userId = userId /\ ~coll[id].read}

Unsettled == [settled |-> FALSE, read |-> {}, idem |-> "unknown"]

\* History only: a write reaches userId's notifications.
ForeignWrite(h, userId) == [h EXCEPT !.mar[userId] = Unsettled]

\* History only: the markAllRead calls for userId in flight, other than p,
\* have had another writer since they started.
Disturb(pr, p, userId) ==
    [q \in Procs |->
        IF q # p /\ pr[q].op = "markAllRead" /\ pr[q].userId = userId
        THEN [pr[q] EXCEPT !.clean = FALSE, !.fromSettled = FALSE,
                           !.prevRead = {}]
        ELSE pr[q]]

\* createNotification(userId, message, type): addDoc in a try block whose
\* catch only logs.  The write adds one unread notification, or fails and
\* adds nothing.
createNotification(userId, message, type) ==
    /\ \E ok \in BOOLEAN :
        IF ok
        THEN /\ notifications' = addDoc(notifications, NewId(notifications),
                    NotificationDoc(userId, message, type))
             /\ procs' = Disturb(procs, "none", userId)
             /\ hist' = ForeignWrite(hist, userId)
        ELSE UNCHANGED <<notifications, procs, hist>>
    /\ delivered' = NoDelivery
    /\ UNCHANGED <<lost_found_items, complaints, volunteers, clock, view>>

\* The "mark all read" button: markAllRead(userId) builds its query and
\* suspends at await getDocs(q).
markAllRead(p, userId) ==
    /\ TakesSlot(p)
    /\ procs' = [procs EXCEPT ![p] =
            [op |-> "markAllRead", pc |-> "getDocs", userId |-> userId,
             sel |-> {}, applied |-> {}, clean |-> TRUE,
             fromSettled |-> hist.mar[userId].settled,
             prevRead |-> hist.mar[userId].read]]
    /\ hist' = [hist EXCEPT !.calls = @ + 1]
    /\ delivered' = NoDelivery
    /\ UNCHANGED <<storeVars, clock, view>>

MarkAllQueryRead(userId) ==
    {id \in DOMAIN notifications :
        /\ notifications[id].userId = userId
        /\ notifications[id].read = TRUE}

\* The query without its recipient filter: every unread notification.
MarkAllQueryAnyUser(userId) ==
    {id \in DOMAIN notifications : notifications[id].read = FALSE}

\* where("userId", "==", userId), where("read", "==", false)
MarkAllQuery(userId) ==
    {id \in DOMAIN notifications :
        /\ notifications[id].userId = userId
        /\ notifications[id].read = FALSE}

\* const snap = await getDocs(q): the point-in-time read, or its failure,
\* which markAllRead does not catch: the call ends by rejecting.
MarkGetDocs(p) ==
    /\ procs[p].op = "markAllRead"
    /\ procs[p].pc = "getDocs"
    /\ \E ok \in BOOLEAN :
        IF ok
        THEN procs' = [procs EXCEPT ![p].pc = "commit",
                                    ![p].sel = MarkAllQuery(procs[p].userId)]
        ELSE procs' = [procs EXCEPT ![p] = Idle]
    /\ delivered' = NoDelivery
    /\ UNCHANGED <<storeVars, clock, view, hist>>

\* The selected documents removed in place of updated.
BatchDeleteRead(coll, sel) == [id \in DOMAIN coll \ sel |-> coll[id]]

\* batch.update(doc, { read: true }) for every selected document.
BatchUpdateRead(coll, sel) ==
    [id \in DOMAIN coll |->
        IF id \in sel THEN [coll[id] EXCEPT !.read = TRUE] ELSE coll[id]]

\* A loop of single updates in place of the batch: one document per step.
MarkCommitOneByOne(p) ==
    /\ procs[p].op = "markAllRead"
    /\ procs[p].pc = "commit"
    /\ LET left == {id \in procs[p].sel : ~notifications[id].read} IN
       IF left = {}
       THEN /\ procs' = [procs EXCEPT ![p].pc = "committed"]
            /\ UNCHANGED <<notifications, hist>>
       ELSE \E id \in left :
            /\ notifications' = BatchUpdateRead(notifications, {id})
            /\ procs' = [Disturb(procs, p, procs[p].userId) EXCEPT
                            ![p].applied = @ \cup {id}]
            /\ hist' = ForeignWrite(hist, procs[p].userId)
    /\ delivered' = NoDelivery
    /\ UNCHANGED <<lost_found_items, complaints, volunteers, clock, view>>

\* The commit selecting anew: every notification of the user that is unread
\* when the batch commits.
MarkCommitSelectsAtCommit(p) ==
    /\ procs[p].op = "markAllRead"
    /\ procs[p].pc = "commit"
    /\ \E ok \in BOOLEAN :
        IF ok
        THEN /\ notifications' = BatchUpdateRead(notifications,
                    UnreadOf(notifications, procs[p].userId))
             /\ procs' = [Disturb(procs, p, procs[p].userId) EXCEPT
                    ![p].pc = "committed",
                    ![p].applied = UnreadOf(notifications, procs[p].userId)]
             /\ hist' = ForeignWrite(hist, procs[p].userId)
        ELSE /\ procs' = [procs EXCEPT ![p] = Idle]
             /\ UNCHANGED <<notifications, hist>>
    /\ delivered' = NoDelivery
    /\ UNCHANGED <<lost_found_items, complaints, volunteers, clock, view>>

\* const batch = writeBatch(db); snap.docs.forEach(...); batch.commit():
\* all selected documents are set to read in one atomic write, or the commit
\* fails, changes nothing and markAllRead rejects.
MarkCommit(p) ==
    /\ procs[p].op = "markAllRead"
    /\ procs[p].pc = "commit"
    /\ \E ok \in BOOLEAN :
        IF ok
        THEN /\ notifications' = BatchUpdateRead(notifications, procs[p].sel)
             /\ procs' = [(IF procs[p].sel = {} THEN procs
                           ELSE Disturb(procs, p, procs[p].userId)) EXCEPT
                    ![p].pc = "committed",
                    ![p].applied = procs[p].sel \cap
                                   UnreadOf(notifications, procs[p].userId)]
             /\ hist' = IF procs[p].sel = {} THEN hist
                        ELSE ForeignWrite(hist, procs[p].userId)
        ELSE /\ procs' = [procs EXCEPT ![p] = Idle]
             /\ UNCHANGED <<notifications, hist>>
    /\ delivered' = NoDelivery
    /\ UNCHANGED <<lost_found_items, complaints, volunteers, clock, view>>

\* await batch.commit() resolves and markAllRead returns.
MarkReturn(p) ==
    LET u == procs[p].userId IN
    /\ procs[p].op = "markAllRead"
    /\ procs[p].pc = "committed"
    /\ procs' = [procs EXCEPT ![p] = Idle]
    /\ hist' = IF procs[p].clean
               THEN [hist EXCEPT !.mar[u] =
                        [settled |-> TRUE,
                         read |-> ReadOf(notifications, u),
                         idem |-> IF ~procs[p].fromSettled THEN "unknown"
                                  ELSE IF ReadOf(notifications, u)
                                            = procs[p].prevRead
                                  THEN "same" ELSE "differ"]]
               ELSE hist
    /\ delivered' = NoDelivery
    /\ UNCHANGED <<storeVars, clock, view>>

UpdateReadToggle(coll, id) == [coll EXCEPT ![id].read = ~@]

\* updateDoc(doc(db, "notifications", notifId), { read: true })
UpdateRead(coll, id) == [coll EXCEPT ![id].read = TRUE]

markOneReadToggles(notifId) ==
    /\ notifId \in DOMAIN notifications
    /\ \E ok \in BOOLEAN :
        IF ok
        THEN LET u == notifications[notifId].userId IN
             /\ notifications' = UpdateReadToggle(notifications, notifId)
             /\ procs' = Disturb(procs, "none", u)
             /\ hist' = ForeignWrite(hist, u)
        ELSE UNCHANGED <<notifications, procs, hist>>
    /\ delivered' = NoDelivery
    /\ UNCHANGED <<lost_found_items, complaints, volunteers, clock, view>>

\* window.markNotifRead(id) of a rendered notification: markOneRead(notifId)
\* is one update, or fails and rejects.
markOneRead(notifId) ==
    /\ notifId \in DOMAIN notifications
    /\ \E ok \in BOOLEAN :
        IF ok
        THEN LET u == notifications[notifId].userId IN
             /\ notifications' = UpdateRead(notifications, notifId)
             /\ procs' = Disturb(procs, "none", u)
             /\ hist' = ForeignWrite(hist, u)
        ELSE UNCHANGED <<notifications, procs, hist>>
    /\ delivered' = NoDelivery
    /\ UNCHANGED <<lost_found_items, complaints, volunteers, clock, view>>

\* History only: a markAllRead call for userId that no other writer
\* interleaved with has returned, and nothing has written to userId's
\* notifications since.
Settled(userId) == userId \in Users /\ hist.mar[userId].settled

\* listenNotifications(userId, onUpdate): a snapshot event.
OnNotificationsSnapshot(userId) ==
    /\ delivered' = [listener |-> "listenNotifications", userId |-> userId,
                     kind |-> "snapshot",
                     docs |-> OnSnapshotDocs(notifications, userId),
                     snap |-> Matching(notifications, userId),
                     settled |-> Settled(userId)]
    /\ UNCHANGED <<storeVars, clock, view, procs, hist>>

\* listenNotifications(userId, onUpdate): an error event, onUpdate([]).
OnNotificationsError(userId) ==
    /\ delivered' = [listener |-> "listenNotifications", userId |-> userId,
                     kind |-> "error", docs |-> <<>>, snap |-> {},
                     settled |-> FALSE]
    /\ UNCHANGED <<storeVars, clock, view, procs, hist>>

(***************************************************************************)
(* Initial states and specifications.                                      *)
(***************************************************************************)
NoHistory ==
    [calls |-> 0,
     reg |-> [k \in RegistrationKeys |->
                [overlapped |-> FALSE, last |-> NoCall, before |-> NoCall]],
     mar |-> [u \in Users |-> Unsettled]]

EmptyStore ==
    /\ notifications = <<>>
    /\ lost_found_items = <<>>
    /\ complaints = <<>>
    /\ volunteers = <<>>

\* The callers of createNotification pass a message and a category.
NotificationArgs == {<<"Announcement", "info">>}

\* The hub's writers never read createdAt, and the order of a snapshot is
\* the subject of SpecSync: here the clock is held at one instant, and
\* SpecNotif leaves the server's acknowledgements to SpecHub.
InitNotif ==
    /\ EmptyStore
    /\ clock = LastTs
    /\ procs = [p \in Procs |-> Idle]
    /\ delivered = NoDelivery
    /\ view = NoView
    /\ hist = NoHistory

NextNotif ==
    \/ \E u \in Users, a \in NotificationArgs :
            /\ Cardinality(DOMAIN notifications) < MaxNotifications
            /\ createNotification(u, a[1], a[2])
    \/ \E p \in Procs, u \in Users :
            hist.calls < MaxMarkCalls /\ markAllRead(p, u)
    \/ \E p \in Procs : MarkGetDocs(p)
    \/ \E p \in Procs : MarkCommit(p)
    \/ \E p \in Procs : MarkReturn(p)
    \/ \E id \in DOMAIN notifications : markOneRead(id)
    \/ \E u \in Users : OnNotificationsSnapshot(u)
    \/ \E u \in Users : OnNotificationsError(u)

SpecNotif == InitNotif /\ [][NextNotif]_vars

\* Every writer of the notifications collection, with the server's
\* acknowledgements of the creating writes and without the listeners.
NextHub ==
    \/ \E u \in Users, a \in NotificationArgs :
            /\ Cardinality(DOMAIN notifications) < MaxNotifications
            /\ createNotification(u, a[1], a[2])
    \/ \E p \in Procs, u \in Users :
            hist.calls < MaxMarkCalls /\ markAllRead(p, u)
    \/ \E p \in Procs : MarkGetDocs(p)
    \/ \E p \in Procs : MarkCommit(p)
    \/ \E p \in Procs : MarkReturn(p)
    \/ \E id \in DOMAIN notifications : markOneRead(id)
    \/ ServerAck

SpecHub == InitNotif /\ [][NextHub]_vars

\* The guard never reads createdAt: the clock is held at one instant.
InitVol ==
    /\ EmptyStore
    /\ clock = LastTs
    /\ procs = [p \in Procs |-> Idle]
    /\ delivered = NoDelivery
    /\ view = NoView
    /\ hist = NoHistory

NextVol ==
    \/ \E p \in Procs, u \in Users, e \in EVENTS :
            hist.calls < MaxRegCalls /\ registerVolunteer(p, u, e)
    \/ \E p \in Procs : RegGetDocs(p)
    \/ \E p \in Procs : RegAddDoc(p)
    \/ \E p \in Procs : RegReturn(p)
    \/ ServerAck

SpecVol == InitVol /\ [][NextVol]_vars

(***************************************************************************)
(* Strings.  A title is the sequence of its characters, so that            *)
(* toLowerCase, split, length and includes do on it what they do in the    *)
(* program.                                                                *)
(***************************************************************************)
UpperCase == <<"A", "B", "C", "D", "E", "F", "G", "H", "I", "J", "K", "L", "M",
               "N", "O", "P", "Q", "R", "S", "T", "U", "V", "W", "X", "Y", "Z">>

LowerCase == <<"a", "b", "c", "d", "e", "f", "g", "h", "i", "j", "k", "l", "m",
               "n", "o", "p", "q", "r", "s", "t", "u", "v", "w", "x", "y", "z">>

Characters ==
    {UpperCase[k] : k \in 1..Len(UpperCase)}
        \cup {LowerCase[k] : k \in 1..Len(LowerCase)} \cup {" "}

\* The lower-case form of each character: a capital letter maps to its small
\* letter, every other character to itself.
LowerOf ==
    [c \in Characters |->
        IF \E k \in 1..Len(UpperCase) : UpperCase[k] = c
        THEN LowerCase[CHOOSE k \in 1..Len(UpperCase) : UpperCase[k] = c]
        ELSE c]

\* String.prototype.toLowerCase
toLowerCase(s) == [i \in 1..Len(s) |-> LowerOf[s[i]]]

\* String.prototype.split(sep) with a one-character separator: the pieces
\* between the separators, empty pieces included.
RECURSIVE split(_, _)
split(s, sep) ==
    IF \A i \in 1..Len(s) : s[i] # sep THEN <<s>>
    ELSE LET k == CHOOSE i \in 1..Len(s) :
                      s[i] = sep /\ \A j \in 1..(i - 1) : s[j] # sep
         IN <<SubSeq(s, 1, k - 1)>> \o split(SubSeq(s, k + 1, Len(s)), sep)

\* String.prototype.includes
includes(s, t) ==
    \E k \in 0..(Len(s) - Len(t)) : SubSeq(s, k + 1, k + Len(t)) = t

\* The titles the forms submit in the model.
LostBrownWallet ==
    <<"L", "o", "s", "t", " ", "B", "r", "o", "w", "n", " ",
      "W", "a", "l", "l", "e", "t">>

FoundBrownWalletDowntown ==
    <<"F", "o", "u", "n", "d", " ", "B", "r", "o", "w", "n", " ",
      "W", "a", "l", "l", "e", "t", " ", "D", "o", "w", "n", "t", "o", "w", "n">>

LostBag == <<"L", "o", "s", "t", " ", "B", "a", "g">>

OldCat == <<"O", "l", "d", " ", " ", "C", "a", "t">>

Brownie == <<"B", "R", "O", "W", "N", "I", "E">>

Titles == {LostBrownWallet, FoundBrownWalletDowntown, LostBag, OldCat, Brownie}

(***************************************************************************)
(* lostfound.js: submitLostFoundItem and checkKeywordMatch (the same in    *)
(* both variants of the file).                                             *)
(***************************************************************************)
LostFoundDoc(userId, title) ==
    [userId |-> userId, title |-> title, status |-> "Pending",
     createdAt |-> serverTimestamp]

KeywordsLongerThan4(newTitle) ==
    SelectSeq(split(toLowerCase(newTitle), " "), LAMBDA w : Len(w) > 4)

\* newTitle.toLowerCase().split(" ").filter(w => w.length > 3)
Keywords(newTitle) ==
    SelectSeq(split(toLowerCase(newTitle), " "), LAMBDA w : Len(w) > 3)

IsMatchWithSelf(docSnap, newItemId, keywords) ==
    \E i \in 1..Len(keywords) : includes(toLowerCase(docSnap.title), keywords[i])

IsMatchSkipsSameTitle(docSnap, newItemId, keywords) ==
    /\ Keywords(docSnap.title) # keywords
    /\ \E i \in 1..Len(keywords) :
            includes(toLowerCase(docSnap.title), keywords[i])

\* The body of the forEach up to `if (matched)`: the new record is skipped
\* by identifier, and keywords.some(kw => itemTitle.includes(kw)).
IsMatch(docSnap, newItemId, keywords) ==
    /\ docSnap.id # newItemId
    /\ \E i \in 1..Len(keywords) :
            includes(toLowerCase(docSnap.title), keywords[i])

\* `<U+1F50D> Possible match found! "${item.title}" may match your
\* report.`: the text opens with the magnifying-glass character, which the
\* record carries by its code point, and a space.
MatchFoundMessage(itemTitle) ==
    [icon |-> "U+1F50D", pre |-> " Possible match found! \"",
     arg |-> itemTitle, post |-> "\" may match your report."]

\* `<U+1F50D> Possible match for your item! Check "${newTitle}".`
MatchForOwnerMessage(newTitle) ==
    [icon |-> "U+1F50D", pre |-> " Possible match for your item! Check \"",
     arg |-> newTitle, post |-> "\"."]

MatchNotificationsOwnerOnly(item, newTitle, userId) ==
    IF item.userId # userId
    THEN <<[about |-> item.id, userId |-> item.userId,
            message |-> MatchForOwnerMessage(newTitle), type |-> "match"]>>
    ELSE <<>>

MatchNotificationsSubmitterOnly(item, newTitle, userId) ==
    <<[about |-> item.id, userId |-> userId,
       message |-> MatchFoundMessage(item.title), type |-> "match"]>>

MatchNotificationsUnguarded(item, newTitle, userId) ==
    <<[about |-> item.id, userId |-> userId,
       message |-> MatchFoundMessage(item.title), type |-> "match"],
      [about |-> item.id, userId |-> item.userId,
       message |-> MatchForOwnerMessage(newTitle), type |-> "match"]>>

\* The createNotification calls of one matched record: one to the submitter
\* and, if the record's owner is someone else, one to that owner.
MatchNotifications(item, newTitle, userId) ==
    <<[about |-> item.id, userId |-> userId,
       message |-> MatchFoundMessage(item.title), type |-> "match"]>>
    \o (IF item.userId # userId
        THEN <<[about |-> item.id, userId |-> item.userId,
                message |-> MatchForOwnerMessage(newTitle), type |-> "match"]>>
        ELSE <<>>)

\* allItems.forEach(...): the createNotification calls of the scan, in the
\* order of the snapshot.
RECURSIVE ForEachMatch(_, _, _, _)
ForEachMatch(snap, newItemId, newTitle, userId) ==
    IF snap = <<>> THEN <<>>
    ELSE (IF IsMatch(Head(snap), newItemId, Keywords(newTitle))
          THEN MatchNotifications(Head(snap), newTitle, userId)
          ELSE <<>>)
         \o ForEachMatch(Tail(snap), newItemId, newTitle, userId)

RECURSIVE AcceptedUntilFailure(_, _, _)
AcceptedUntilFailure(calls, ok, i) ==
    IF i > Len(calls) \/ i \notin ok THEN <<>>
    ELSE <<calls[i]>> \o AcceptedUntilFailure(calls, ok, i + 1)

\* The calls whose addDoc the store accepts, in order: each createNotification
\* catches its own failure, so a failed write takes no other with it.
RECURSIVE Accepted(_, _, _)
Accepted(calls, ok, i) ==
    IF i > Len(calls) THEN <<>>
    ELSE (IF i \in ok THEN <<calls[i]>> ELSE <<>>) \o Accepted(calls, ok, i + 1)

\* The notifications collection after the accepted calls have written.
RECURSIVE AddNotifications(_, _)
AddNotifications(coll, calls) ==
    IF calls = <<>> THEN coll
    ELSE AddNotifications(
            addDoc(coll, NewId(coll),
                   NotificationDoc(Head(calls).userId, Head(calls).message,
                                   Head(calls).type)),
            Tail(calls))

\* History only: which notification each accepted call created.  (A call's
\* record keeps attempted, the createNotification calls of its scan in order,
\* and refused, the positions of those whose write the store refused.)
Emitted(coll, calls) ==
    [i \in 1..Len(calls) |->
        [about |-> calls[i].about, nid |-> Cardinality(DOMAIN coll) + i]]

\* A behaviour of SpecMatch follows one submission: its scan reads the
\* collection once, and the records it meets, other users' earlier
\* submissions, are drawn by InitMatch.
FirstSubmission == hist.calls = 0

\* The record of a submitLostFoundItem call at its first await.
SubmissionCall(userId, title) ==
    [op |-> "submitLostFoundItem", pc |-> "addDoc", userId |-> userId,
     title |-> title, doc |-> 0, snap |-> <<>>, didRead |-> FALSE,
     matched |-> {}, attempted |-> <<>>, refused |-> {},
     emitted |-> <<>>, lost |-> 0, ret |-> FALSE]

\* The form's submit handler calls submitLostFoundItem(userId, userName,
\* formData); the call runs to its first await.  An image upload that fails
\* ends the call as a failed addDoc does: nothing is written, false returned.
submitLostFoundItem(p, userId, title) ==
    /\ TakesSlot(p)
    /\ procs' = [procs EXCEPT ![p] = SubmissionCall(userId, title)]
    /\ hist' = [hist EXCEPT !.calls = @ + 1]
    /\ delivered' = NoDelivery
    /\ UNCHANGED <<storeVars, clock, view>>

\* const itemRef = await addDoc(collection(db, "lost_found_items"), itemData)
SubmitAddDoc(p) ==
    /\ procs[p].op = "submitLostFoundItem"
    /\ procs[p].pc = "addDoc"
    /\ \E ok \in BOOLEAN :
        IF ok
        THEN /\ lost_found_items' = addDoc(lost_found_items,
                    NewId(lost_found_items),
                    LostFoundDoc(procs[p].userId, procs[p].title))
             /\ procs' = [procs EXCEPT ![p].pc = "awaitAdd",
                                       ![p].doc = NewId(lost_found_items)]
        ELSE /\ procs' = [procs EXCEPT ![p].pc = "return", ![p].ret = FALSE]
             /\ UNCHANGED lost_found_items
    /\ delivered' = NoDelivery
    /\ UNCHANGED <<notifications, complaints, volunteers, clock, view, hist>>

\* The server acknowledges the write and addDoc resolves:
\* checkKeywordMatch(itemRef.id, title, userId) computes the keywords and
\* returns at once if there are none, else suspends at await getDocs.
CheckKeywordMatch(p) ==
    /\ procs[p].op = "submitLostFoundItem"
    /\ procs[p].pc = "awaitAdd"
    /\ lost_found_items' = Stamp(lost_found_items, procs[p].doc, clock)
    /\ procs' = [procs EXCEPT
            ![p].pc = IF Len(Keywords(procs[p].title)) = 0
                      THEN "return" ELSE "getDocs",
            ![p].ret = TRUE]
    /\ delivered' = NoDelivery
    /\ UNCHANGED <<notifications, complaints, volunteers, clock, view, hist>>

\* checkKeywordMatch without its try block: a failed read reaches the catch
\* of submitLostFoundItem, which returns false.
ScanGetDocsUncaught(p) ==
    /\ procs[p].op = "submitLostFoundItem"
    /\ procs[p].pc = "getDocs"
    /\ \E ok \in BOOLEAN :
        IF ok
        THEN procs' = [procs EXCEPT
                ![p].pc = "forEach",
                ![p].didRead = TRUE,
                ![p].snap = SnapshotDocs(lost_found_items,
                                         DOMAIN lost_found_items)]
        ELSE procs' = [procs EXCEPT ![p].pc = "return", ![p].ret = FALSE]
    /\ delivered' = NoDelivery
    /\ UNCHANGED <<storeVars, clock, view, hist>>

\* const allItems = await getDocs(collection(db, "lost_found_items")): the
\* point-in-time read of the whole collection, or its failure, which the
\* catch of checkKeywordMatch logs.
ScanGetDocs(p) ==
    /\ procs[p].op = "submitLostFoundItem"
    /\ procs[p].pc = "getDocs"
    /\ \E ok \in BOOLEAN :
        IF ok
        THEN procs' = [procs EXCEPT
                ![p].pc = "forEach",
                ![p].didRead = TRUE,
                ![p].snap = SnapshotDocs(lost_found_items,
                                         DOMAIN lost_found_items)]
        ELSE procs' = [procs EXCEPT ![p].pc = "return"]
    /\ delivered' = NoDelivery
    /\ UNCHANGED <<storeVars, clock, view, hist>>

\* allItems.forEach(...) runs in one synchronous block: no createNotification
\* call is awaited, so every write is issued before anything else runs.
ScanForEach(p) ==
    /\ procs[p].op = "submitLostFoundItem"
    /\ procs[p].pc = "forEach"
    /\ \E calls \in {ForEachMatch(procs[p].snap, procs[p].doc, procs[p].title,
                                   procs[p].userId)} :
       \E ok \in SUBSET (1..Len(calls)) :
       \E done \in {Accepted(calls, ok, 1)} :
            /\ notifications' = AddNotifications(notifications, done)
            /\ procs' = [procs EXCEPT
                    ![p].pc = "return",
                    ![p].matched =
                        {procs[p].snap[i].id : i \in
                            {j \in 1..Len(procs[p].snap) :
                                IsMatch(procs[p].snap[j], procs[p].doc,
                                        Keywords(procs[p].title))}},
                    ![p].attempted = calls,
                    ![p].refused = (1..Len(calls)) \ ok,
                    ![p].emitted = Emitted(notifications, done),
                    ![p].lost = Len(calls) - Len(done)]
    /\ delivered' = NoDelivery
    /\ UNCHANGED <<lost_found_items, complaints, volunteers, clock, view, hist>>

\* return true, or return false from the catch of submitLostFoundItem.
SubmitReturn(p) ==
    /\ procs[p].op = "submitLostFoundItem"
    /\ procs[p].pc = "return"
    /\ procs' = [procs EXCEPT ![p] = Idle]
    /\ delivered' = NoDelivery
    /\ UNCHANGED <<storeVars, clock, view, hist>>

\* The lost/found records in the store when the model starts: up to
\* MaxItems of them, acknowledged, with any owner and title.
ItemStores ==
    UNION {[1..n -> [userId : Users, title : Titles, status : {"Pending"},
                     createdAt : {LastTs}]] : n \in 0..MaxItems}

InitMatch ==
    /\ notifications = <<>>
    /\ lost_found_items \in ItemStores
    /\ complaints = <<>>
    /\ volunteers = <<>>
    /\ clock = LastTs
    /\ procs = [p \in Procs |-> Idle]
    /\ delivered = NoDelivery
    /\ view = NoView
    /\ hist = NoHistory

NextMatch ==
    \/ \E p \in Procs, u \in Users, t \in Titles :
            FirstSubmission /\ submitLostFoundItem(p, u, t)
    \/ \E p \in Procs : SubmitAddDoc(p)
    \/ \E p \in Procs : CheckKeywordMatch(p)
    \/ \E p \in Procs : ScanGetDocs(p)
    \/ \E p \in Procs : ScanForEach(p)
    \/ \E p \in Procs : SubmitReturn(p)

SpecMatch == InitMatch /\ [][NextMatch]_vars

(***************************************************************************)
(* complaints.js and lostfound.js: the admin's status updates.  The        *)
(* status select of a rendered row carries the record's id and its userId  *)
(* (data-id, data-owner); its onchange handler passes them on with the     *)
(* chosen option.                                                          *)
(***************************************************************************)
ComplaintStatuses == {"Submitted", "In Progress", "Resolved"}

LostFoundStatuses == {"Pending", "Found"}

\* submitComplaint's complaintData, reduced to the fields the core reads.
ComplaintDoc(userId) ==
    [userId |-> userId, status |-> "Submitted", createdAt |-> serverTimestamp]

\* `Your complaint status was updated to "${newStatus}".`
ComplaintStatusMessage(newStatus) ==
    [pre |-> "Your complaint status was updated to \"", arg |-> newStatus,
     post |-> "\"."]

\* The text of a document identifier: the store's identifiers are 20
\* characters, of which the model fixes the first 8 per pair of records (two
\* records may or may not open alike) and writes the record's number in the
\* other 12, so that no two records have the same identifier.
AutoIdHeads ==
    <<<<"K", "q", "3", "Z", "x", "P", "7", "a">>,
      <<"Z", "r", "8", "1", "M", "n", "Q", "2">>>>

AutoId(id) ==
    AutoIdHeads[(((id - 1) \div 2) % 2) + 1]
    \o [i \in 1..12 |->
            IF i < 4 THEN "0"
            ELSE <<"0", "1", "2", "3", "4", "5", "6", "7", "8", "9">>
                    [((id \div (10 ^ (12 - i))) % 10) + 1]]

\* String.prototype.slice(begin, end) for 0 <= begin <= end.
slice(s, begin, end) ==
    SubSeq(s, begin + 1, IF end < Len(s) THEN end ELSE Len(s))

\* const shortId = itemId.slice(0, 8);
\* `#${shortId} status updated to "${newStatus}".`
LostFoundStatusMessage(itemId, newStatus) ==
    [hash |-> "#", shortId |-> slice(AutoId(itemId), 0, 8),
     pre |-> " status updated to \"", arg |-> newStatus, post |-> "\"."]

\* `Your lost/found item status was updated to "${newStatus}".`
LostFoundStatusMessageOld(newStatus) ==
    [pre |-> "Your lost/found item status was updated to \"",
     arg |-> newStatus, post |-> "\"."]

StatusNotificationToAdmin(p) ==
    NotificationDoc("admin", ComplaintStatusMessage(procs[p].newStatus),
                    "complaint")

\* The createNotification call of a status update: its recipient, message
\* and category.  The two versions of lostfound.js differ in the message and
\* the category ("lostfound" or "status").
StatusNotification(p) ==
    IF procs[p].op = "updateComplaintStatus"
    THEN NotificationDoc(procs[p].ownerId,
                         ComplaintStatusMessage(procs[p].newStatus),
                         "complaint")
    ELSE IF procs[p].type = "lostfound"
    THEN NotificationDoc(procs[p].ownerId,
                         LostFoundStatusMessage(procs[p].id,
                                                procs[p].newStatus),
                         "lostfound")
    ELSE NotificationDoc(procs[p].ownerId,
                         LostFoundStatusMessageOld(procs[p].newStatus),
                         "status")

StatusCall(op, id, newStatus, ownerId, type) ==
    [op |-> op, pc |-> "updateDoc", id |-> id, newStatus |-> newStatus,
     ownerId |-> ownerId, type |-> type, oldStatus |-> "none",
     created |-> {}, failed |-> FALSE, lost |-> 0]

\* window.updateComplaintStatus(select): updateComplaintStatus(id,
\* select.value, owner) runs to await updateDoc.
updateComplaintStatus(p, complaintId, newStatus, ownerId) ==
    /\ TakesSlot(p)
    /\ procs' = [procs EXCEPT ![p] =
            StatusCall("updateComplaintStatus", complaintId, newStatus,
                       ownerId, "complaint")]
    /\ hist' = [hist EXCEPT !.calls = @ + 1]
    /\ delivered' = NoDelivery
    /\ UNCHANGED <<storeVars, clock, view>>

\* window.updateLFStatus(select): updateLostFoundStatus(id, select.value,
\* owner) runs to await updateDoc.
updateLostFoundStatus(p, itemId, newStatus, itemOwnerId, type) ==
    /\ TakesSlot(p)
    /\ procs' = [procs EXCEPT ![p] =
            StatusCall("updateLostFoundStatus", itemId, newStatus,
                       itemOwnerId, type)]
    /\ hist' = [hist EXCEPT !.calls = @ + 1]
    /\ delivered' = NoDelivery
    /\ UNCHANGED <<storeVars, clock, view>>

\* updateDoc(doc(db, <collection>, id), { status: newStatus })
SetStatus(coll, id, newStatus) == [coll EXCEPT ![id].status = newStatus]

\* The update without its catch skipping the rest: after a failed write the
\* owner is notified all the same.
UpdateDocStatusNotifiesAnyway(p) ==
    /\ procs[p].op \in {"updateComplaintStatus", "updateLostFoundStatus"}
    /\ procs[p].pc = "updateDoc"
    /\ \E ok \in BOOLEAN :
        IF ok
        THEN /\ IF procs[p].op = "updateComplaintStatus"
                THEN /\ complaints' = SetStatus(complaints, procs[p].id,
                                                procs[p].newStatus)
                     /\ procs' = [procs EXCEPT
                            ![p].pc = "createNotification",
                            ![p].oldStatus = complaints[procs[p].id].status]
                     /\ UNCHANGED lost_found_items
                ELSE /\ lost_found_items' = SetStatus(lost_found_items,
                                        procs[p].id, procs[p].newStatus)
                     /\ procs' = [procs EXCEPT
                            ![p].pc = "createNotification",
                            ![p].oldStatus =
                                lost_found_items[procs[p].id].status]
                     /\ UNCHANGED complaints
        ELSE /\ procs' = [procs EXCEPT ![p].pc = "createNotification",
                                       ![p].failed = TRUE]
             /\ UNCHANGED <<complaints, lost_found_items>>
    /\ delivered' = NoDelivery
    /\ UNCHANGED <<notifications, volunteers, clock, view, hist>>

\* await updateDoc(...): the single-document write, or its failure, which
\* the catch of the update function reports with a toast: no notification.
UpdateDocStatus(p) ==
    /\ procs[p].op \in {"updateComplaintStatus", "updateLostFoundStatus"}
    /\ procs[p].pc = "updateDoc"
    /\ \E ok \in BOOLEAN :
        IF ok
        THEN /\ IF procs[p].op = "updateComplaintStatus"
                THEN /\ complaints' = SetStatus(complaints, procs[p].id,
                                                procs[p].newStatus)
                     /\ procs' = [procs EXCEPT
                            ![p].pc = "createNotification",
                            ![p].oldStatus = complaints[procs[p].id].status]
                     /\ UNCHANGED lost_found_items
                ELSE /\ lost_found_items' = SetStatus(lost_found_items,
                                        procs[p].id, procs[p].newStatus)
                     /\ procs' = [procs EXCEPT
                            ![p].pc = "createNotification",
                            ![p].oldStatus =
                                lost_found_items[procs[p].id].status]
                     /\ UNCHANGED complaints
        ELSE /\ procs' = [procs EXCEPT ![p].pc = "return", ![p].failed = TRUE]
             /\ UNCHANGED <<complaints, lost_found_items>>
    /\ delivered' = NoDelivery
    /\ UNCHANGED <<notifications, volunteers, clock, view, hist>>

NotifyOwnerRollsBack(p) ==
    /\ procs[p].op \in {"updateComplaintStatus", "updateLostFoundStatus"}
    /\ procs[p].pc = "createNotification"
    /\ \E ok \in BOOLEAN :
        IF ok
        THEN /\ notifications' = addDoc(notifications, NewId(notifications),
                                        StatusNotification(p))
             /\ procs' = [procs EXCEPT
                    ![p].pc = "awaitNotification",
                    ![p].created = @ \cup {NewId(notifications)}]
             /\ UNCHANGED <<lost_found_items, complaints>>
        ELSE /\ procs' = [procs EXCEPT ![p].pc = "return", ![p].lost = 1]
             /\ UNCHANGED notifications
             /\ IF procs[p].op = "updateComplaintStatus"
                THEN /\ complaints' = SetStatus(complaints, procs[p].id,
                                                procs[p].oldStatus)
                     /\ UNCHANGED lost_found_items
                ELSE /\ lost_found_items' = SetStatus(lost_found_items,
                                        procs[p].id, procs[p].oldStatus)
                     /\ UNCHANGED complaints
    /\ delivered' = NoDelivery
    /\ UNCHANGED <<volunteers, clock, view, hist>>

\* await createNotification(ownerId, message, category): addDoc writes the
\* notification, or fails, which createNotification catches and logs.
NotifyOwner(p) ==
    /\ procs[p].op \in {"updateComplaintStatus", "updateLostFoundStatus"}
    /\ procs[p].pc = "createNotification"
    /\ \E ok \in BOOLEAN :
        IF ok
        THEN /\ notifications' = addDoc(notifications, NewId(notifications),
                                        StatusNotification(p))
             /\ procs' = [procs EXCEPT
                    ![p].pc = "awaitNotification",
                    ![p].created = @ \cup {NewId(notifications)}]
        ELSE /\ procs' = [procs EXCEPT ![p].pc = "return", ![p].lost = 1]
             /\ UNCHANGED notifications
    /\ delivered' = NoDelivery
    /\ UNCHANGED <<lost_found_items, complaints, volunteers, clock, view, hist>>

\* The server acknowledges the notification and createNotification resolves.
NotifyAcked(p) ==
    /\ procs[p].op \in {"updateComplaintStatus", "updateLostFoundStatus"}
    /\ procs[p].pc = "awaitNotification"
    /\ notifications' = [notifications EXCEPT
            ![CHOOSE n \in procs[p].created : TRUE].createdAt = clock]
    /\ procs' = [procs EXCEPT ![p].pc = "return"]
    /\ delivered' = NoDelivery
    /\ UNCHANGED <<lost_found_items, complaints, volunteers, clock, view, hist>>

\* showToast and return.
StatusReturn(p) ==
    /\ procs[p].op \in {"updateComplaintStatus", "updateLostFoundStatus"}
    /\ procs[p].pc = "return"
    /\ procs' = [procs EXCEPT ![p] = Idle]
    /\ delivered' = NoDelivery
    /\ UNCHANGED <<storeVars, clock, view, hist>>

\* The complaints and lost/found records in the store when the model
\* starts: n of them, acknowledged, with any owner and in any status, as
\* submitComplaint and submitLostFoundItem wrote them and earlier status
\* updates left them.
ComplaintStores(n) ==
    [1..n -> [userId : Users, status : ComplaintStatuses,
              createdAt : {LastTs}]]

LostFoundStores(n) ==
    [1..n -> [userId : Users, title : {LostBag}, status : LostFoundStatuses,
              createdAt : {LastTs}]]

InitFlow ==
    /\ notifications = <<>>
    /\ \E n \in 0..1, m \in 0..1 :
        /\ complaints \in ComplaintStores(n)
        /\ lost_found_items \in LostFoundStores(m)
    /\ volunteers = <<>>
    /\ clock = LastTs
    /\ procs = [p \in Procs |-> Idle]
    /\ delivered = NoDelivery
    /\ view = NoView
    /\ hist = NoHistory

NextFlow ==
    \/ \E p \in Procs, id \in DOMAIN complaints, s \in ComplaintStatuses :
            /\ hist.calls < MaxStatusCalls
            /\ updateComplaintStatus(p, id, s, complaints[id].userId)
    \/ \E p \in Procs, id \in DOMAIN lost_found_items, s \in LostFoundStatuses,
          type \in {"lostfound", "status"} :
            /\ hist.calls < MaxStatusCalls
            /\ updateLostFoundStatus(p, id, s, lost_found_items[id].userId,
                                     type)
    \/ \E p \in Procs : UpdateDocStatus(p)
    \/ \E p \in Procs : NotifyOwner(p)
    \/ \E p \in Procs : NotifyAcked(p)
    \/ \E p \in Procs : StatusReturn(p)

SpecFlow == InitFlow /\ [][NextFlow]_vars

(***************************************************************************)
(* The live listeners: listenUserLostFound and listenAllLostFound          *)
(* (lostfound.js), listenUserComplaints and listenAllComplaints            *)
(* (complaints.js), listenUserVolunteers and listenAllVolunteers           *)
(* (volunteer.js), listenNotifications (notifications.js).  Each event of  *)
(* a subscription is a snapshot, handed to the callback mapped and sorted, *)
(* or an error, for which the callback gets [].                            *)
(***************************************************************************)
OnSnapshot(listener, coll, userId) ==
    /\ delivered' = [listener |-> listener, userId |-> userId,
                     kind |-> "snapshot",
                     docs |-> OnSnapshotDocs(coll, userId),
                     snap |-> Matching(coll, userId),
                     settled |-> FALSE]
    /\ UNCHANGED <<storeVars, clock, view, procs, hist>>

OnError(listener, userId) ==
    /\ delivered' = [listener |-> listener, userId |-> userId,
                     kind |-> "error", docs |-> <<>>, snap |-> {},
                     settled |-> FALSE]
    /\ UNCHANGED <<storeVars, clock, view, procs, hist>>

listenUserLostFound(userId) ==
    \/ OnSnapshot("listenUserLostFound", lost_found_items, userId)
    \/ OnError("listenUserLostFound", userId)

listenAllLostFound ==
    \/ OnSnapshot("listenAllLostFound", lost_found_items, "all")
    \/ OnError("listenAllLostFound", "all")

listenUserComplaints(userId) ==
    \/ OnSnapshot("listenUserComplaints", complaints, userId)
    \/ OnError("listenUserComplaints", userId)

listenAllComplaints ==
    \/ OnSnapshot("listenAllComplaints", complaints, "all")
    \/ OnError("listenAllComplaints", "all")

listenUserVolunteers(userId) ==
    \/ OnSnapshot("listenUserVolunteers", volunteers, userId)
    \/ OnError("listenUserVolunteers", userId)

listenAllVolunteers ==
    \/ OnSnapshot("listenAllVolunteers", volunteers, "all")
    \/ OnError("listenAllVolunteers", "all")

listenNotifications(userId) ==
    \/ OnNotificationsSnapshot(userId)
    \/ OnNotificationsError(userId)

\* The documents a collection may hold when the model starts: up to
\* MaxItems documents of the collection's shape, each with any owner and
\* either a server timestamp or a write still pending.
CreatedAts == Timestamps \cup {NoTs}

DocsLike(doc) ==
    {[doc EXCEPT !.userId = u, !.createdAt = t] :
        u \in Users, t \in CreatedAts}

Stores(doc) == UNION {[1..n -> DocsLike(doc)] : n \in 0..MaxItems}

\* The latest server timestamp in the store: the clock is not behind it.
Stamped ==
    {notifications[id].createdAt : id \in DOMAIN notifications} \cup
    {lost_found_items[id].createdAt : id \in DOMAIN lost_found_items} \cup
    {complaints[id].createdAt : id \in DOMAIN complaints} \cup
    {volunteers[id].createdAt : id \in DOMAIN volunteers}

\* One collection is filled, the others are empty; the listeners of the
\* four collections do not read one another's documents.
InitSync ==
    /\ \/ /\ notifications \in Stores(NotificationDoc("u1", "Announcement",
                                                      "info"))
          /\ lost_found_items = <<>> /\ complaints = <<>> /\ volunteers = <<>>
       \/ /\ lost_found_items \in Stores(LostFoundDoc("u1", LostBag))
          /\ notifications = <<>> /\ complaints = <<>> /\ volunteers = <<>>
       \/ /\ complaints \in Stores(ComplaintDoc("u1"))
          /\ notifications = <<>> /\ lost_found_items = <<>>
          /\ volunteers = <<>>
       \/ /\ volunteers \in Stores(VolunteerDoc("u1", "tech-workshop"))
          /\ notifications = <<>> /\ lost_found_items = <<>>
          /\ complaints = <<>>
    /\ clock \in Timestamps
    /\ \A t \in Stamped : t.pending \/ ~TsBefore(clock, t)
    /\ \E t \in Stamped \cup {[seconds |-> 1, nanoseconds |-> 0,
                               pending |-> FALSE]} :
            ~t.pending /\ t = clock
    /\ procs = [p \in Procs |-> Idle]
    /\ delivered = NoDelivery
    /\ view = NoView
    /\ hist = NoHistory

NextSync ==
    \/ \E u \in Users : listenUserLostFound(u)
    \/ listenAllLostFound
    \/ \E u \in Users : listenUserComplaints(u)
    \/ listenAllComplaints
    \/ \E u \in Users : listenUserVolunteers(u)
    \/ listenAllVolunteers
    \/ \E u \in Users : listenNotifications(u)
    \/ ServerAck

SpecSync == InitSync /\ [][NextSync]_vars

(***************************************************************************)
(* The admin dashboard's broadcast: the click listener of broadcastBtn     *)
(* reads the users collection once and calls createNotification for every  *)
(* account whose role is "user".  The users collection is written by the   *)
(* sign-up page only; what a read of it returns is an input here.          *)
(***************************************************************************)
\* The account ids, in the order a snapshot of the users collection lists them.
Accounts == <<"a1", "u1", "u2">>

\* d.data().role of an account document; "none" for a document without one.
Roles == {"user", "admin", "none"}

\* What getDocs(collection(db, "users")) may return: any of the accounts,
\* each with any role.
UsersSnapshots ==
    UNION {[S -> Roles] : S \in SUBSET {Accounts[i] : i \in 1..Len(Accounts)}}

\* String.prototype.trim, the space being the only white space of the model.
RECURSIVE trim(_)
trim(s) ==
    IF s = <<>> THEN s
    ELSE IF Head(s) = " " THEN trim(Tail(s))
    ELSE IF s[Len(s)] = " " THEN trim(SubSeq(s, 1, Len(s) - 1))
    ELSE s

\* The values of the broadcastMsg field in the model.
BroadcastInputs == {<<>>, <<" ", " ">>, <<"H", "i">>, <<" ", "H", "i", " ">>}

RECURSIVE BroadcastCallsToAll(_, _, _)
BroadcastCallsToAll(users, msg, i) ==
    IF i > Len(Accounts) THEN <<>>
    ELSE (IF Accounts[i] \in DOMAIN users
          THEN <<[about |-> Accounts[i], userId |-> Accounts[i],
                  message |-> msg, type |-> "info"]>>
          ELSE <<>>)
         \o BroadcastCallsToAll(users, msg, i + 1)

\* usersSnap.docs.filter(d => d.data().role === "user")
\*          .map(d => createNotification(d.id, msg, "info"))
RECURSIVE BroadcastCalls(_, _, _)
BroadcastCalls(users, msg, i) ==
    IF i > Len(Accounts) THEN <<>>
    ELSE (IF Accounts[i] \in DOMAIN users /\ users[Accounts[i]] = "user"
          THEN <<[about |-> Accounts[i], userId |-> Accounts[i],
                  message |-> msg, type |-> "info"]>>
          ELSE <<>>)
         \o BroadcastCalls(users, msg, i + 1)

\* The click on broadcastBtn: const msg = value.trim(); an empty msg ends the
\* listener with a toast, any other runs it to await getDocs.
broadcast(p, value) ==
    /\ TakesSlot(p)
    /\ procs' = [procs EXCEPT ![p] =
            [op |-> "broadcast",
             pc |-> IF trim(value) = <<>> THEN "return" ELSE "getDocs",
             value |-> value, msg |-> trim(value), didRead |-> FALSE,
             users |-> <<>>, attempted |-> <<>>, refused |-> {},
             emitted |-> <<>>, toast |-> IF trim(value) = <<>>
                                         THEN "error" ELSE "none"]]
    /\ hist' = [hist EXCEPT !.calls = @ + 1]
    /\ delivered' = NoDelivery
    /\ UNCHANGED <<storeVars, clock, view>>

\* const usersSnap = await getDocs(collection(db, "users")): the read, or
\* its failure, which nothing in the listener catches: its promise rejects.
BroadcastGetDocs(p) ==
    /\ procs[p].op = "broadcast"
    /\ procs[p].pc = "getDocs"
    /\ \/ \E snap \in UsersSnapshots :
            procs' = [procs EXCEPT ![p].pc = "map", ![p].didRead = TRUE,
                                   ![p].users = snap]
       \/ procs' = [procs EXCEPT ![p].pc = "rejected"]
    /\ delivered' = NoDelivery
    /\ UNCHANGED <<storeVars, clock, view, hist>>

\* filter(...).map(...): the createNotification calls run one after another
\* in one synchronous block, each up to its own await addDoc; every write is
\* accepted or refused on its own, and createNotification catches a refusal.
BroadcastMap(p) ==
    /\ procs[p].op = "broadcast"
    /\ procs[p].pc = "map"
    /\ \E calls \in {BroadcastCalls(procs[p].users, procs[p].msg, 1)} :
       \E ok \in SUBSET (1..Len(calls)) :
       \E done \in {Accepted(calls, ok, 1)} :
            /\ notifications' = AddNotifications(notifications, done)
            /\ procs' = [procs EXCEPT
                    ![p].pc = "awaitAll",
                    ![p].attempted = calls,
                    ![p].refused = (1..Len(calls)) \ ok,
                    ![p].emitted = Emitted(notifications, done)]
    /\ delivered' = NoDelivery
    /\ UNCHANGED <<lost_found_items, complaints, volunteers, clock, view, hist>>

\* await Promise.all(promises) resolves, every createNotification having
\* resolved: its addDoc was refused, or accepted and acknowledged by the
\* server.  The field is cleared and the success toast shown.
BroadcastAll(p) ==
    /\ procs[p].op = "broadcast"
    /\ procs[p].pc = "awaitAll"
    /\ \A i \in 1..Len(procs[p].emitted) :
            procs[p].emitted[i].nid \notin Pending(notifications)
    /\ procs' = [procs EXCEPT ![p].pc = "return", ![p].value = <<>>,
                              ![p].toast = "success"]
    /\ delivered' = NoDelivery
    /\ UNCHANGED <<storeVars, clock, view, hist>>

\* The listener has ended, by returning or by the rejection of its promise,
\* which no caller awaits.
BroadcastEnd(p) ==
    /\ procs[p].op = "broadcast"
    /\ procs[p].pc \in {"return", "rejected"}
    /\ procs' = [procs EXCEPT ![p] = Idle]
    /\ delivered' = NoDelivery
    /\ UNCHANGED <<storeVars, clock, view, hist>>

InitCast ==
    /\ EmptyStore
    /\ clock = LastTs
    /\ procs = [p \in Procs |-> Idle]
    /\ delivered = NoDelivery
    /\ view = NoView
    /\ hist = NoHistory

NextCast ==
    \/ \E p \in Procs, value \in BroadcastInputs :
            hist.calls < MaxBroadcasts /\ broadcast(p, value)
    \/ \E p \in Procs : BroadcastGetDocs(p)
    \/ \E p \in Procs : BroadcastMap(p)
    \/ \E p \in Procs : BroadcastAll(p)
    \/ \E p \in Procs : BroadcastEnd(p)
    \/ ServerAck

SpecCast == InitCast /\ [][NextCast]_vars

(***************************************************************************)
(* The dashboards (userDashboard.js and the admin dashboard): the init     *)
(* call, the point-in-time reads of the stats cards and the live           *)
(* listeners that write the same cards.                                    *)
(*                                                                         *)
(* view.pc is the position of initDashboard and view.load that of          *)
(* loadDashboardStats; view.pending holds the reads of its Promise.all     *)
(* that the store has yet to serve and view.size what the served ones      *)
(* returned; view.stat is the text of each card; view.unsubscribers is     *)
(* the module's array of cancel handles and view.open the subscriptions    *)
(* acquired whose cancel handle has not been invoked.  History:            *)
(* view.wrote tells for each card whether a point-in-time read or a live   *)
(* update wrote it last.                                                   *)
(*                                                                         *)
(* The users collection is written by the sign-up page only: while a       *)
(* dashboard is open it holds the accounts of DashUsers.                   *)
(***************************************************************************)
DashPages == {"user", "admin"}

\* currentUser.uid / currentAdmin.uid
DashUid(page) == IF page = "user" THEN "u1" ELSE "a1"

\* The cards written after the Promise.all of loadDashboardStats /
\* loadAdminStats.
StatsReads(page) ==
    IF page = "user"
    THEN {"statLF", "statComplaints", "statVolunteer"}
    ELSE {"statUsers", "statLFPending", "statOpenComplaints",
          "statVolunteers"}

\* The users collection while a dashboard is open: the role of each account.
DashUsers == [a \in {"a1", "u1", "u2"} |-> IF a = "a1" THEN "admin" ELSE "user"]

\* snap.docs.map(d => ({ id: d.id, ...d.data() })) of the users collection.
UsersDocs ==
    [i \in 1..Len(Accounts) |->
        [id |-> Accounts[i], role |-> DashUsers[Accounts[i]]]]

StatCards(page) ==
    IF page = "user" THEN StatsReads(page) \cup {"statNotif"}
    ELSE StatsReads(page)

\* The listeners startListeners / startAdminListeners subscribe, in order.
Listeners(page) ==
    IF page = "user"
    THEN <<"listenUserLostFound", "listenUserComplaints",
           "listenUserVolunteers", "listenNotifications">>
    ELSE <<"listenAllLostFound", "listenAllComplaints",
           "listenAllVolunteers", "listenNotifications", "onSnapshotUsers">>

\* The card a listener's callback writes; the admin's notification callback
\* renders the bell only.
CardOf(page, listener) ==
    CASE listener = "listenUserLostFound" -> "statLF"
      [] listener = "listenUserComplaints" -> "statComplaints"
      [] listener = "listenUserVolunteers" -> "statVolunteer"
      [] listener = "listenAllLostFound" -> "statLFPending"
      [] listener = "listenAllComplaints" -> "statOpenComplaints"
      [] listener = "listenAllVolunteers" -> "statVolunteers"
      [] listener = "listenNotifications" ->
            IF page = "user" THEN "statNotif" ELSE "none"
      [] listener = "onSnapshotUsers" -> "statUsers"
      [] OTHER -> "none"

ListenerOf(page, card) ==
    CHOOSE l \in {Listeners(page)[i] : i \in 1..Len(Listeners(page))} :
        CardOf(page, l) = card

\* The collection a listener, or the read of a card, queries.
CollectionOf(name) ==
    CASE name \in {"listenUserLostFound", "listenAllLostFound",
                   "statLF", "statLFPending"} -> lost_found_items
      [] name \in {"listenUserComplaints", "listenAllComplaints",
                   "statComplaints", "statOpenComplaints"} -> complaints
      [] name \in {"listenUserVolunteers", "listenAllVolunteers",
                   "statVolunteer", "statVolunteers"} -> volunteers
      [] OTHER -> notifications

\* The userId of a listener's query: the page's user, or none for the
\* admin's listeners of whole collections.
QueryUserOf(page, listener) ==
    IF page = "user" \/ listener = "listenNotifications"
    THEN DashUid(page) ELSE "all"

\* What loadDashboardStats / loadAdminStats writes to a card from its read:
\* snap.size of the query, or the length of the filtered docs.
PointInTimeCount(page, card) ==
    CASE card = "statNotif" ->
            Cardinality({id \in DOMAIN notifications :
                /\ notifications[id].userId = DashUid(page)
                /\ notifications[id].read = FALSE})
      [] card = "statLFPending" ->
            Cardinality({id \in DOMAIN lost_found_items :
                lost_found_items[id].status = "Pending"})
      [] card = "statOpenComplaints" ->
            Cardinality({id \in DOMAIN complaints :
                complaints[id].status # "Resolved"})
      [] card = "statVolunteers" -> Cardinality(DOMAIN volunteers)
      [] card = "statUsers" -> Cardinality(DOMAIN DashUsers)
      [] OTHER ->
            Cardinality(QueryByUser(CollectionOf(card), DashUid(page)))

\* What a listener's callback writes to its card from the items handed to it.
LiveCount(card, items) ==
    CASE card = "statNotif" -> UnreadCount(items)
      [] card = "statLFPending" ->
            Len(SelectSeq(items, LAMBDA i : i.status = "Pending"))
      [] card = "statOpenComplaints" ->
            Len(SelectSeq(items, LAMBDA i : i.status # "Resolved"))
      [] OTHER -> Len(items)

\* The session of the browser that loads the page: whether
\* onAuthStateChanged reports a user, whether getDoc(doc(db, "users", uid))
\* finds the profile, and the profile's role.
Sessions == [signedIn : BOOLEAN, exists : BOOLEAN, role : Roles]

\* The page is loaded: initDashboard() runs to await protectPage(...).
DashStart(page, session) ==
    [page |-> page, session |-> session,
     pc |-> "protectPage", load |-> "idle", pending |-> {},
     size |-> [c \in StatCards(page) |-> 0],
     stat |-> [c \in StatCards(page) |-> 0],
     wrote |-> [c \in StatCards(page) |-> "none"],
     unsubscribers |-> <<>>, open |-> {}]

\* The page after protectPage has resolved and the name, avatar and topbar
\* elements were written: initDashboard calls loadDashboardStats, which
\* issues the reads of its Promise.all.
Resolved == [view EXCEPT !.pc = "awaitStats", !.load = "reads",
                         !.pending = StatsReads(view.page)]

\* The page after protectPage has resolved and a write of the name, avatar
\* or topbar element threw (getElementById returned null): initDashboard is
\* in its catch block, with no read issued and no listener subscribed.
InfoThrew == [view EXCEPT !.pc = "caught"]

ProtectPageAnyRole ==
    /\ view.page \in DashPages
    /\ view.pc = "protectPage"
    /\ IF ~view.session.signedIn
       THEN view' = [view EXCEPT !.pc = "left"]
       ELSE \E ok \in BOOLEAN :
            IF ~ok THEN view' = [view EXCEPT !.pc = "unresolved"]
            ELSE IF ~view.session.exists
            THEN view' = [view EXCEPT !.pc = "left"]
            ELSE \E shown \in BOOLEAN :
                    view' = IF shown THEN Resolved ELSE InfoThrew
    /\ delivered' = NoDelivery
    /\ UNCHANGED <<storeVars, clock, procs, hist>>

\* protectPage(requiredRole), the page's own role: the callback of
\* onAuthStateChanged redirects (window.location.href) and returns without
\* resolving if there is no user, if the profile read finds no document or
\* if the role differs; a profile read that fails rejects inside the
\* callback and the promise stays pending; else it resolves, and
\* initDashboard runs on to its next await, or into its catch block.
ProtectPage ==
    /\ view.page \in DashPages
    /\ view.pc = "protectPage"
    /\ IF ~view.session.signedIn
       THEN view' = [view EXCEPT !.pc = "left"]
       ELSE \E ok \in BOOLEAN :
            IF ~ok THEN view' = [view EXCEPT !.pc = "unresolved"]
            ELSE IF ~view.session.exists
            THEN view' = [view EXCEPT !.pc = "left"]
            ELSE IF view.session.role # view.page
            THEN view' = [view EXCEPT !.pc = "left"]
            ELSE \E shown \in BOOLEAN :
                    view' = IF shown THEN Resolved ELSE InfoThrew
    /\ delivered' = NoDelivery
    /\ UNCHANGED <<storeVars, clock, procs, hist>>

\* One getDocs of the Promise.all is served.  With the last one the
\* Promise.all resolves and the cards are written, and the user page goes on
\* to await the read of the unread notifications; a read that fails rejects
\* the Promise.all and the catch block ends the function.
StatsGetDocs(card) ==
    /\ view.page \in DashPages
    /\ view.load = "reads"
    /\ card \in view.pending
    /\ \E ok \in BOOLEAN :
        IF ~ok
        THEN view' = [view EXCEPT !.load = "done", !.pending = {}]
        ELSE LET size == [view.size EXCEPT
                            ![card] = PointInTimeCount(view.page, card)]
             IN IF view.pending # {card}
                THEN view' = [view EXCEPT !.size = size,
                                          !.pending = @ \ {card}]
                ELSE view' = [view EXCEPT
                        !.size = size,
                        !.pending = {},
                        !.stat = [c \in StatCards(view.page) |->
                                    IF c \in StatsReads(view.page)
                                    THEN size[c] ELSE @[c]],
                        !.wrote = [c \in StatCards(view.page) |->
                                    IF c \in StatsReads(view.page)
                                    THEN "read" ELSE @[c]],
                        !.load = IF view.page = "user"
                                 THEN "unread" ELSE "done"]
    /\ delivered' = NoDelivery
    /\ UNCHANGED <<storeVars, clock, procs, hist>>

\* const nSnap = await getDocs(<unread notifications of the user>);
\* statNotif = nSnap.size; or the read fails and the catch block logs.
StatsGetUnread ==
    /\ view.page = "user"
    /\ view.load = "unread"
    /\ \E ok \in BOOLEAN :
        IF ok
        THEN view' = [view EXCEPT
                !.load = "done",
                !.size["statNotif"] = PointInTimeCount("user", "statNotif"),
                !.stat["statNotif"] = PointInTimeCount("user", "statNotif"),
                !.wrote["statNotif"] = "read"]
        ELSE view' = [view EXCEPT !.load = "done"]
    /\ delivered' = NoDelivery
    /\ UNCHANGED <<storeVars, clock, procs, hist>>

StartListenersUnawaited ==
    /\ view.page \in DashPages
    /\ view.pc = "awaitStats"
    /\ \E pc \in {"ready", "caught"} :
        view' = [view EXCEPT
            !.pc = pc,
            !.unsubscribers = Listeners(view.page),
            !.open = {Listeners(view.page)[i] :
                        i \in 1..Len(Listeners(view.page))}]
    /\ delivered' = NoDelivery
    /\ UNCHANGED <<storeVars, clock, procs, hist>>

\* await loadDashboardStats() has resolved: startListeners() subscribes the
\* listeners and pushes each cancel handle, and the setup calls that follow
\* run in the same block; one of them throwing takes initDashboard to its
\* catch block, which logs.
StartListeners ==
    /\ view.page \in DashPages
    /\ view.pc = "awaitStats"
    /\ view.load = "done"
    /\ \E pc \in {"ready", "caught"} :
        view' = [view EXCEPT
            !.pc = pc,
            !.unsubscribers = Listeners(view.page),
            !.open = {Listeners(view.page)[i] :
                        i \in 1..Len(Listeners(view.page))}]
    /\ delivered' = NoDelivery
    /\ UNCHANGED <<storeVars, clock, procs, hist>>

\* The callback the dashboard passed to a listener runs on items.
Callback(listener, items) ==
    LET card == CardOf(view.page, listener) IN
    IF card = "none" THEN view
    ELSE [view EXCEPT !.stat[card] = LiveCount(card, items),
                      !.wrote[card] = "live"]

\* The listeners whose events the page can receive.
Receiving ==
    IF view.page \in DashPages /\ view.pc \in {"ready", "caught"}
    THEN view.open ELSE {}

\* The documents a snapshot event of a listener maps, sorted by the
\* listeners of the collections; the users subscription maps without sorting.
ListenerDocs(listener) ==
    IF listener = "onSnapshotUsers" THEN UsersDocs
    ELSE OnSnapshotDocs(CollectionOf(listener),
                        QueryUserOf(view.page, listener))

\* A snapshot event of a subscribed listener: the documents mapped and
\* sorted are handed to the dashboard's callback.
ListenerSnapshot(listener) ==
    /\ listener \in Receiving
    /\ \E items \in {ListenerDocs(listener)} :
        /\ delivered' = [listener |-> listener,
                         userId |-> QueryUserOf(view.page, listener),
                         kind |-> "snapshot", docs |-> items,
                         snap |-> IF listener = "onSnapshotUsers" THEN {}
                                  ELSE Matching(CollectionOf(listener),
                                        QueryUserOf(view.page, listener)),
                         settled |-> FALSE]
        /\ view' = Callback(listener, items)
    /\ UNCHANGED <<storeVars, clock, procs, hist>>

\* An error event of a subscribed listener: the error callback logs and
\* hands the dashboard's callback [].  The users subscription passes
\* onSnapshot no error callback: its error event runs no code of the page.
ListenerError(listener) ==
    /\ listener \in Receiving
    /\ delivered' = [listener |-> listener,
                     userId |-> QueryUserOf(view.page, listener),
                     kind |-> "error", docs |-> <<>>, snap |-> {},
                     settled |-> FALSE]
    /\ view' = IF listener = "onSnapshotUsers" THEN view
               ELSE Callback(listener, <<>>)
    /\ UNCHANGED <<storeVars, clock, procs, hist>>

\* The click on logoutBtn: logoutUser() signs out and leaves the page.
Logout ==
    /\ view.page \in DashPages
    /\ view.pc = "ready"
    /\ view' = [view EXCEPT !.pc = "left"]
    /\ delivered' = NoDelivery
    /\ UNCHANGED <<storeVars, clock, procs, hist>>

\* The records in the store while a dashboard is open: u1 has a pending
\* lost/found record, a resolved and an open complaint and up to
\* MaxDashDocs unread notifications; u2 has a found record and a volunteer
\* registration.
DashLostFound ==
    <<[userId |-> "u1", title |-> LostBag, status |-> "Pending",
       createdAt |-> LastTs],
      [userId |-> "u2", title |-> LostBag, status |-> "Found",
       createdAt |-> LastTs]>>

DashComplaints ==
    <<[userId |-> "u1", status |-> "Resolved", createdAt |-> LastTs],
      [userId |-> "u1", status |-> "Submitted", createdAt |-> LastTs]>>

DashVolunteers ==
    <<[userId |-> "u2", eventId |-> "health-camp", status |-> "Registered",
       createdAt |-> LastTs]>>

DashNotifications(n) ==
    [i \in 1..n |-> [userId |-> "u1", message |-> "Announcement",
                     type |-> "info", read |-> FALSE, createdAt |-> LastTs]]

InitDash ==
    /\ \E n \in 0..MaxDashDocs : notifications = DashNotifications(n)
    /\ lost_found_items = DashLostFound
    /\ complaints = DashComplaints
    /\ volunteers = DashVolunteers
    /\ clock = LastTs
    /\ procs = [p \in Procs |-> Idle]
    /\ delivered = NoDelivery
    /\ \E page \in DashPages, session \in Sessions :
            view = DashStart(page, session)
    /\ hist = NoHistory

\* While the page is open the hub adds notifications for its user.
NextDash ==
    \/ ProtectPage
    \/ \E card \in view.pending : StatsGetDocs(card)
    \/ StatsGetUnread
    \/ StartListeners
    \/ \E l \in Receiving : ListenerSnapshot(l)
    \/ \E l \in Receiving : ListenerError(l)
    \/ Logout
    \/ \E a \in NotificationArgs :
            /\ Cardinality(DOMAIN notifications) <= MaxDashDocs
            /\ createNotification("u1", a[1], a[2])

SpecDash == InitDash /\ [][NextDash]_vars

(***************************************************************************)
(* Two submissions in flight together: two submitLostFoundItem calls, by   *)
(* any users with any titles, over a store that starts empty.  A behaviour *)
(* follows each call to its return statement.                              *)
(***************************************************************************)
InitRace ==
    /\ EmptyStore
    /\ clock = LastTs
    /\ procs = [p \in Procs |-> Idle]
    /\ delivered = NoDelivery
    /\ view = NoView
    /\ hist = NoHistory

NextRace ==
    \/ \E p \in Procs, u \in Users, t \in Titles : submitLostFoundItem(p, u, t)
    \/ \E p \in Procs : SubmitAddDoc(p)
    \/ \E p \in Procs : CheckKeywordMatch(p)
    \/ \E p \in Procs : ScanGetDocs(p)
    \/ \E p \in Procs : ScanForEach(p)

SpecRace == InitRace /\ [][NextRace]_vars

(***************************************************************************)
(* The whole core: every operation of the specifications above that writes *)
(* to the store, over one store.  A behaviour starts from a store that     *)
(* holds one complaint, one lost/found item and one unread notification,   *)
(* of any owner; further complaints arrive through submitComplaint.        *)
(***************************************************************************)
\* submitComplaint(userId, userName, formData): addDoc of complaintData in a
\* try block; a failed write is caught, a toast shown and false returned.
submitComplaint(userId) ==
    /\ \E ok \in BOOLEAN :
        IF ok
        THEN complaints' = addDoc(complaints, NewId(complaints),
                                  ComplaintDoc(userId))
        ELSE UNCHANGED complaints
    /\ hist' = [hist EXCEPT !.calls = @ + 1]
    /\ delivered' = NoDelivery
    /\ UNCHANGED <<notifications, lost_found_items, volunteers, clock, view,
                   procs>>

\* The notifications collection with n notifications as createNotification
\* leaves them, unread, each for any user.
NotificationStores(n) ==
    [1..n -> [userId : Users, message : {"Announcement"}, type : {"info"},
              read : {FALSE}, createdAt : {LastTs}]]

InitCore ==
    /\ notifications \in NotificationStores(1)
    /\ complaints \in ComplaintStores(1)
    /\ lost_found_items \in LostFoundStores(1)
    /\ volunteers = <<>>
    /\ clock = LastTs
    /\ procs = [p \in Procs |-> Idle]
    /\ delivered = NoDelivery
    /\ view = NoView
    /\ hist = NoHistory

\* A behaviour of SpecCore has up to MaxCoreCalls calls, of any operations
\* and in flight together or not: a handler starts whenever its event
\* arrives.
CoreCallsLeft == hist.calls < MaxCoreCalls

NextCore ==
    \/ \E u \in Users :
            CoreCallsLeft /\ submitComplaint(u)
    \/ \E p \in Procs, u \in Users :
            CoreCallsLeft /\ submitLostFoundItem(p, u, LostBrownWallet)
    \/ \E p \in Procs : SubmitAddDoc(p)
    \/ \E p \in Procs : CheckKeywordMatch(p)
    \/ \E p \in Procs : ScanGetDocs(p)
    \/ \E p \in Procs : ScanForEach(p)
    \/ \E p \in Procs : SubmitReturn(p)
    \/ \E p \in Procs, u \in Users :
            CoreCallsLeft /\ registerVolunteer(p, u, "health-camp")
    \/ \E p \in Procs : RegGetDocs(p)
    \/ \E p \in Procs : RegAddDoc(p)
    \/ \E p \in Procs : RegReturn(p)
    \/ \E p \in Procs, id \in DOMAIN complaints, s \in ComplaintStatuses :
            /\ CoreCallsLeft
            /\ updateComplaintStatus(p, id, s, complaints[id].userId)
    \/ \E p \in Procs, id \in DOMAIN lost_found_items, s \in LostFoundStatuses,
          type \in {"lostfound", "status"} :
            /\ CoreCallsLeft
            /\ updateLostFoundStatus(p, id, s, lost_found_items[id].userId,
                                     type)
    \/ \E p \in Procs : UpdateDocStatus(p)
    \/ \E p \in Procs : NotifyOwner(p)
    \/ \E p \in Procs : NotifyAcked(p)
    \/ \E p \in Procs : StatusReturn(p)
    \/ \E p \in Procs, value \in BroadcastInputs :
            CoreCallsLeft /\ broadcast(p, value)
    \/ \E p \in Procs : BroadcastGetDocs(p)
    \/ \E p \in Procs : BroadcastMap(p)
    \/ \E p \in Procs : BroadcastAll(p)
    \/ \E p \in Procs : BroadcastEnd(p)
    \/ \E p \in Procs, u \in Users : CoreCallsLeft /\ markAllRead(p, u)
    \/ \E p \in Procs : MarkGetDocs(p)
    \/ \E p \in Procs : MarkCommit(p)
    \/ \E p \in Procs : MarkReturn(p)
    \/ \E id \in DOMAIN notifications : markOneRead(id)
    \/ ServerAck

SpecCore == InitCore /\ [][NextCore]_vars

\* C2 (as stated): in every reachable state, whatever the interleaving of
\* registerVolunteer calls, at most one volunteers record exists for each
\* (userId, eventId) pair.
C2_AtMostOnePerKey ==
    \A k \in RegistrationKeys : Registered(k[1], k[2]) <= 1

\* Lemma (scope of the guard): a (userId, eventId) pair for which no two
\* registerVolunteer calls were ever in flight together has at most one
\* volunteers record.
C2_AtMostOnePerKeyWithoutOverlap ==
    \A k \in RegistrationKeys :
        ~hist.reg[k].overlapped => Registered(k[1], k[2]) <= 1

\* C3: two registerVolunteer calls for the same pair, the second started after
\* the first returned, no record for the pair beforehand, no other call for
\* the pair in flight and no store failure: the first returns true and writes
\* one record, the second returns false and writes nothing, and exactly one
\* record exists for the pair afterwards.
C3_SequentialPrecondition(k) ==
    /\ ~hist.reg[k].overlapped
    /\ hist.reg[k].before.valid
    /\ hist.reg[k].last.valid
    /\ ~hist.reg[k].before.failed
    /\ ~hist.reg[k].last.failed
    /\ hist.reg[k].before.n0 = 0

C3_SequentialOutcome(k) ==
    /\ hist.reg[k].before.ret = TRUE
    /\ hist.reg[k].before.n1 = 1
    /\ hist.reg[k].last.ret = FALSE
    /\ hist.reg[k].last.n0 = 1
    /\ hist.reg[k].last.n1 = 1

\* C3: every pair whose last two returned calls meet that precondition shows
\* that outcome.
C3_SecondSequentialCallRejected ==
    \A k \in RegistrationKeys :
        C3_SequentialPrecondition(k) => C3_SequentialOutcome(k)

C3_Witness ==
    \E k \in RegistrationKeys :
        C3_SequentialPrecondition(k) /\ C3_SequentialOutcome(k)

\* History only: the markAllRead calls in flight that have made their
\* point-in-time read, and what a delivered snapshot shows of a notification.
MarkSelected(p) ==
    /\ procs[p].op = "markAllRead"
    /\ procs[p].pc \in {"commit", "committed"}

SnapshotFor(p) ==
    /\ delivered.listener = "listenNotifications"
    /\ delivered.kind = "snapshot"
    /\ delivered.userId = procs[p].userId

ShownRead(id) == \E d \in delivered.snap : d.id = id /\ d.read

\* C4: markAllRead is idempotent.  For one recipient with no other writer in
\* between, a second markAllRead(userId) call that follows a first one leaves
\* the same set of the recipient's notifications read as the first did; and
\* once the first call has returned, the recipient has no unread notification
\* and a snapshot handed to the recipient's listener counts zero unread.
C4_MarkAllReadIdempotent ==
    /\ \A u \in Users :
        /\ hist.mar[u].idem # "differ"
        /\ hist.mar[u].settled =>
                /\ UnreadOf(notifications, u) = {}
                /\ hist.mar[u].read = ReadOf(notifications, u)
    /\ (delivered.kind = "snapshot" /\ delivered.settled) =>
            UnreadCount(delivered.docs) = 0

\* A second call in a row has returned for a recipient with two
\* notifications, and the listener has been handed the snapshot.
C4_Witness ==
    \E u \in Users :
        /\ hist.mar[u].idem = "same"
        /\ Cardinality(hist.mar[u].read) = 2
        /\ delivered.kind = "snapshot"
        /\ delivered.userId = u
        /\ delivered.settled
        /\ Len(delivered.docs) = 2

\* C5: markAllRead applies its read-flips as one atomic batch, of which no
\* listener sees a part.  A snapshot delivered to a notification listener
\* that shows as read a notification flipped by the batch of a markAllRead
\* call shows every notification selected by that call as read; before the
\* batch commits, the call has flipped nothing.  (A flag set by another
\* writer, markOneRead or another call's batch, is not a flip of this
\* batch.)
C5_BatchNeverPartlyVisible ==
    \A p \in Procs :
        /\ (MarkSelected(p) /\ procs[p].pc = "commit" /\ procs[p].applied # {})
                => procs[p].applied = procs[p].sel
        /\ (MarkSelected(p) /\ SnapshotFor(p)) =>
                ((\E a \in procs[p].applied : ShownRead(a)) =>
                    \A b \in procs[p].sel : ShownRead(b))

\* A batch that flipped two notifications has committed and the recipient's
\* listener is handed the snapshot while the call has yet to return.
C5_Witness ==
    \E p \in Procs :
        /\ MarkSelected(p)
        /\ SnapshotFor(p)
        /\ Cardinality(procs[p].applied) = 2
        /\ \A b \in procs[p].sel : ShownRead(b)

\* C6: once a notification exists, no step removes it or changes its
\* recipient, message or category; a read notification stays read; and
\* createdAt changes only when the server resolves the pending timestamp of
\* the creating write.
C6_OnlyReadIsSet ==
    [][\A id \in DOMAIN notifications :
            /\ id \in DOMAIN notifications'
            /\ notifications'[id].userId = notifications[id].userId
            /\ notifications'[id].message = notifications[id].message
            /\ notifications'[id].type = notifications[id].type
            /\ notifications[id].read => notifications'[id].read
            /\ \/ notifications'[id].createdAt = notifications[id].createdAt
               \/ notifications[id].createdAt.pending]_vars

\* A notification read through markOneRead and another read by the batch of
\* a markAllRead call, both still as created otherwise.
C6_Witness ==
    \E p \in Procs, a \in DOMAIN notifications, b \in DOMAIN notifications :
        /\ MarkSelected(p)
        /\ procs[p].applied = {a}
        /\ b \notin procs[p].sel
        /\ notifications[a].read
        /\ notifications[b].read
        /\ notifications[b].userId = procs[p].userId
        /\ \A id \in {a, b} :
                /\ notifications[id].message = "Announcement"
                /\ notifications[id].type = "info"
                /\ ~notifications[id].createdAt.pending

\* History only: the submitLostFoundItem calls whose matching scan has run
\* to its end, and what the properties say about titles.
ScanEnded(p) ==
    /\ procs[p].op = "submitLostFoundItem"
    /\ procs[p].pc = "return"
    /\ procs[p].ret

\* t occurs in s as a run of consecutive characters.
Occurs(t, s) ==
    \E i \in 1..Len(s) :
        /\ i + Len(t) - 1 <= Len(s)
        /\ \A k \in 1..Len(t) : s[i + k - 1] = t[k]

\* The tokens of s: the maximal runs of characters other than the space.
TokensOf(s) ==
    {SubSeq(s, i, j) : <<i, j>> \in
        {ij \in (1..Len(s)) \X (1..Len(s)) :
            /\ ij[1] <= ij[2]
            /\ \A k \in ij[1]..ij[2] : s[k] # " "
            /\ ij[1] = 1 \/ s[ij[1] - 1] = " "
            /\ ij[2] = Len(s) \/ s[ij[2] + 1] = " "}}

LongTokens(title) == {w \in TokensOf(toLowerCase(title)) : Len(w) > 3}

SnapshotOf(p) == {procs[p].snap[i] : i \in 1..Len(procs[p].snap)}

EmittedBy(p) == {procs[p].emitted[i] : i \in 1..Len(procs[p].emitted)}

Contains(message, text) == message.arg = text

\* C7: when the scan of a submission read the collection and every one of
\* its notification writes was accepted, every record of the snapshot owned
\* by a different user whose lower-cased title contains a keyword of the new
\* title got exactly two notifications from this scan: one addressed to the
\* submitter whose message contains the record's title, and one addressed to
\* the record's owner whose message contains the new title.
C7_TwoNotificationsPerForeignMatch ==
    \A p \in Procs :
        (ScanEnded(p) /\ procs[p].didRead /\ procs[p].lost = 0) =>
            \A tokens \in {LongTokens(procs[p].title)} :
            \A r \in SnapshotOf(p) :
                (/\ r.id # procs[p].doc
                 /\ r.userId # procs[p].userId
                 /\ \E w \in tokens : Occurs(w, toLowerCase(r.title)))
                => LET about == {e \in EmittedBy(p) : e.about = r.id} IN
                   /\ Cardinality(about) = 2
                   /\ \E a \in about, b \in about :
                        /\ a # b
                        /\ notifications[a.nid].userId = procs[p].userId
                        /\ Contains(notifications[a.nid].message, r.title)
                        /\ notifications[b.nid].userId = r.userId
                        /\ Contains(notifications[b.nid].message,
                                    procs[p].title)
                        /\ notifications[a.nid].type = "match"
                        /\ notifications[b.nid].type = "match"

\* "Lost Brown Wallet" was submitted while another user's "Found Brown Wallet
\* Downtown" was in the store, and the scan created two notifications for it.
C7_Witness ==
    \E p \in Procs :
        /\ ScanEnded(p) /\ procs[p].didRead /\ procs[p].lost = 0
        /\ procs[p].title = LostBrownWallet
        /\ \E r \in SnapshotOf(p) :
            /\ r.title = FoundBrownWalletDowntown
            /\ r.userId # procs[p].userId
            /\ Cardinality({e \in EmittedBy(p) : e.about = r.id}) = 2

\* C8 (as stated): a submission titled "Lost Bag" creates no match
\* notification, whatever other records the store holds.
C8_LostBagNeverNotifies ==
    \A p \in Procs :
        (ScanEnded(p) /\ procs[p].title = LostBag) => procs[p].emitted = <<>>

\* C8 (amended): "Lost" has four characters and is a keyword, "Bag" is not.
\* A submission titled "Lost Bag" whose scan read the collection and lost no
\* write creates no match notification exactly when no other record of the
\* snapshot has "lost" in its lower-cased title.
C8_LostBagNotifiesOnLost ==
    /\ Keywords(LostBag) = <<SubSeq(toLowerCase(LostBag), 1, 4)>>
    /\ \A p \in Procs :
        (/\ ScanEnded(p)
         /\ procs[p].title = LostBag
         /\ procs[p].didRead
         /\ procs[p].lost = 0)
        => (procs[p].emitted = <<>>
            <=> ~ \E r \in SnapshotOf(p) :
                    /\ r.id # procs[p].doc
                    /\ Occurs(<<"l", "o", "s", "t">>, toLowerCase(r.title)))

\* "Lost Bag" was submitted to a store holding two other records, neither
\* with "lost" in its title, and the scan created nothing.
C8_Witness ==
    \E p \in Procs :
        /\ ScanEnded(p)
        /\ procs[p].title = LostBag
        /\ procs[p].didRead
        /\ procs[p].lost = 0
        /\ Len(procs[p].snap) = 3
        /\ procs[p].emitted = <<>>

\* C9: a scan for a title that, lower-cased and split at spaces, has no token
\* longer than 3 characters reads nothing and creates (or attempts) no
\* notification; any other scan that read the collection declared a match
\* exactly the records of its snapshot whose id differs from the new record's
\* and whose lower-cased title contains one of those tokens, and created
\* notifications about no other record.
C9_MatchRule ==
    \A p \in Procs :
        ScanEnded(p) =>
            \A tokens \in {LongTokens(procs[p].title)} :
            IF tokens = {}
            THEN /\ ~procs[p].didRead
                 /\ procs[p].emitted = <<>>
                 /\ procs[p].lost = 0
            ELSE procs[p].didRead =>
                 /\ procs[p].matched =
                        {r.id : r \in {x \in SnapshotOf(p) :
                            /\ x.id # procs[p].doc
                            /\ \E w \in tokens :
                                    Occurs(w, toLowerCase(x.title))}}
                 /\ {e.about : e \in EmittedBy(p)} \subseteq procs[p].matched
                 /\ procs[p].lost = 0 =>
                        {e.about : e \in EmittedBy(p)} = procs[p].matched

\* A scan for "Lost Brown Wallet" matched "BROWNIE", which contains the token
\* "brown" without having it as a word, and did not match "Old  Cat".
C9_Witness ==
    \E p \in Procs :
        /\ ScanEnded(p)
        /\ procs[p].didRead
        /\ procs[p].title = LostBrownWallet
        /\ \E r \in SnapshotOf(p), q \in SnapshotOf(p) :
            /\ r.title = Brownie /\ r.id \in procs[p].matched
            /\ q.title = OldCat /\ q.id \notin procs[p].matched

\* History only: the status updates in flight and the record each is about.
IsStatusUpdate(p) ==
    procs[p].op \in {"updateComplaintStatus", "updateLostFoundStatus"}

RecordOf(p) ==
    IF procs[p].op = "updateComplaintStatus"
    THEN complaints[procs[p].id]
    ELSE lost_found_items[procs[p].id]

\* C10: for any record, any current status and any new status, a status
\* update none of whose store operations fails (a) sets the record's status
\* to the new status in its updateDoc step, with no notification written
\* before that step, and (b) then creates exactly one notification, unread,
\* addressed to the record's owner, with the new status in its message.
C10_StatusThenOneNotification ==
    /\ [](\A p \in Procs :
            IsStatusUpdate(p) =>
                /\ procs[p].pc \in {"updateDoc", "createNotification"}
                        => procs[p].created = {}
                /\ (/\ procs[p].pc \in {"awaitNotification", "return"}
                    /\ ~procs[p].failed
                    /\ procs[p].lost = 0)
                   => /\ Cardinality(procs[p].created) = 1
                      /\ \A n \in procs[p].created :
                            /\ notifications[n].userId = RecordOf(p).userId
                            /\ Contains(notifications[n].message,
                                        procs[p].newStatus)
                            /\ ~notifications[n].read)
    /\ [][\A p \in Procs :
            (/\ IsStatusUpdate(p)
             /\ procs[p].pc = "updateDoc"
             /\ procs'[p].pc = "createNotification")
            => /\ IF procs[p].op = "updateComplaintStatus"
                  THEN complaints'[procs[p].id].status = procs[p].newStatus
                  ELSE lost_found_items'[procs[p].id].status
                            = procs[p].newStatus
               /\ notifications' = notifications]_vars

\* A complaint went from Submitted straight to Resolved and its owner has
\* the one notification of the update.
C10_Witness ==
    \E p \in Procs :
        /\ procs[p].op = "updateComplaintStatus"
        /\ procs[p].pc = "return"
        /\ ~procs[p].failed /\ procs[p].lost = 0
        /\ procs[p].oldStatus = "Submitted"
        /\ procs[p].newStatus = "Resolved"
        /\ complaints[procs[p].id].status = "Resolved"
        /\ Cardinality(procs[p].created) = 1
        /\ \A n \in procs[p].created :
                notifications[n].userId = complaints[procs[p].id].userId

\* History only: document a of a delivered sequence was created before
\* document b, or a has no server timestamp yet and b has one.
BelongsAfter(a, b) ==
    \/ a.createdAt.pending /\ ~b.createdAt.pending
    \/ /\ ~a.createdAt.pending /\ ~b.createdAt.pending
       /\ TsBefore(a.createdAt, b.createdAt)

DeliveredSet == {delivered.docs[i] : i \in 1..Len(delivered.docs)}

\* C1 (as stated): the sequence a snapshot event hands to the callback holds
\* exactly the documents that match the listener's predicate at that event,
\* each id once, ordered by createdAt descending, with the documents that
\* have no server timestamp yet placed last.
C1_SnapshotNewestFirst ==
    delivered.kind = "snapshot" =>
        /\ DeliveredSet = delivered.snap
        /\ \A i \in 1..Len(delivered.docs), j \in 1..Len(delivered.docs) :
                i # j => delivered.docs[i].id # delivered.docs[j].id
        /\ \A i \in 1..Len(delivered.docs), j \in 1..Len(delivered.docs) :
                i < j => ~BelongsAfter(delivered.docs[i], delivered.docs[j])

\* Lemma (what the listeners do deliver): the matching documents, each id
\* once, ordered by the whole seconds of createdAt descending with the
\* pending ones last; documents of one second keep the snapshot's order.
C1_SnapshotNewestFirstBySeconds ==
    delivered.kind = "snapshot" =>
        /\ DeliveredSet = delivered.snap
        /\ \A i \in 1..Len(delivered.docs), j \in 1..Len(delivered.docs) :
                i # j => delivered.docs[i].id # delivered.docs[j].id
        /\ \A i \in 1..Len(delivered.docs), j \in 1..Len(delivered.docs) :
                i < j =>
                    /\ ~(delivered.docs[i].createdAt.pending
                            /\ ~delivered.docs[j].createdAt.pending)
                    /\ CreatedAtSeconds(delivered.docs[i])
                            >= CreatedAtSeconds(delivered.docs[j])
                    /\ CreatedAtSeconds(delivered.docs[i])
                            = CreatedAtSeconds(delivered.docs[j])
                        => delivered.docs[i].id < delivered.docs[j].id

\* C11: when the status write of updateComplaintStatus or
\* updateLostFoundStatus has succeeded and the notification write that
\* follows fails, the failing step changes neither the record nor the
\* notifications (the status is not rolled back and no notification is
\* added), the call goes on to its normal return without passing through
\* its catch block, it has created no notification, and, no other status
\* update having run, the record holds the new status.
C11_StatusKeptWhenNotificationFails ==
    /\ [](\A p \in Procs :
            (IsStatusUpdate(p) /\ procs[p].pc = "return" /\ procs[p].lost = 1)
            => /\ ~procs[p].failed
               /\ procs[p].created = {}
               /\ hist.calls = 1 => RecordOf(p).status = procs[p].newStatus)
    /\ [][\A p \in Procs :
            (/\ IsStatusUpdate(p)
             /\ procs[p].pc = "createNotification"
             /\ procs'[p].pc = "return")
            => /\ notifications' = notifications
               /\ complaints' = complaints
               /\ lost_found_items' = lost_found_items
               /\ procs'[p].failed = FALSE]_vars

\* A lost/found record went from Pending to Found, the notification write
\* failed, and the record is Found with no notification in the store.
C11_Witness ==
    \E p \in Procs :
        /\ procs[p].op = "updateLostFoundStatus"
        /\ procs[p].pc = "return"
        /\ procs[p].lost = 1
        /\ ~procs[p].failed
        /\ procs[p].oldStatus = "Pending"
        /\ procs[p].newStatus = "Found"
        /\ lost_found_items[procs[p].id].status = "Found"
        /\ notifications = <<>>

\* C16: createNotification(userId, message, type), here called by a status
\* update.  When its write is accepted, the step adds exactly one
\* notification, unread, addressed to userId with the message and category
\* passed, and leaves every other notification as it was; when the write
\* fails, the step adds nothing and the calling update goes on to the same
\* return it reaches after a notification was sent, not to its catch block.
C16_CreateNotificationContract ==
    [][\A p \in Procs :
        (/\ IsStatusUpdate(p)
         /\ procs[p].pc = "createNotification"
         /\ procs'[p].pc # "createNotification")
        => \/ /\ procs'[p].pc = "awaitNotification"
              /\ \E n \in DOMAIN notifications' :
                    /\ n \notin DOMAIN notifications
                    /\ DOMAIN notifications' = DOMAIN notifications \cup {n}
                    /\ notifications'[n].userId = procs[p].ownerId
                    /\ notifications'[n].read = FALSE
                    /\ notifications'[n].message = StatusNotification(p).message
                    /\ notifications'[n].type = StatusNotification(p).type
                    /\ procs'[p].created = {n}
              /\ \A m \in DOMAIN notifications :
                    notifications'[m] = notifications[m]
           \/ /\ procs'[p].pc = "return"
              /\ notifications' = notifications
              /\ procs'[p].failed = FALSE
              /\ procs'[p].created = {}]_vars

\* A complaint's owner has the one unread notification of an update, and the
\* call has returned to where a failed notification would have left it too.
C16_Witness ==
    \E p \in Procs :
        /\ procs[p].op = "updateComplaintStatus"
        /\ procs[p].pc = "return"
        /\ ~procs[p].failed
        /\ \E n \in procs[p].created :
            /\ DOMAIN notifications = {n}
            /\ notifications[n].userId = procs[p].ownerId
            /\ notifications[n].read = FALSE
            /\ notifications[n].type = "complaint"

\* History only: the createNotification calls a scan made, and the
\* notifications a scan created about a record for a recipient.
Attempts(p) == 1..Len(procs[p].attempted)

EmittedFor(p, about, userId) ==
    {e \in EmittedBy(p) :
        e.about = about /\ notifications[e.nid].userId = userId}

\* C18: within one scan, (a) for each matched record a notification to the
\* submitter is attempted and, when the record's owner is someone else, one
\* to the owner, whatever became of the writes before it; and (b) every
\* attempted write that the store did not refuse is in the notifications
\* collection, with its recipient and message: a refused write takes no
\* other write of the scan with it.
C18_FailedWriteBlocksNoOther ==
    \A p \in Procs :
        (ScanEnded(p) /\ procs[p].didRead) =>
            /\ \A r \in SnapshotOf(p) :
                r.id \in procs[p].matched =>
                    /\ \E i \in Attempts(p) :
                        /\ procs[p].attempted[i].about = r.id
                        /\ procs[p].attempted[i].userId = procs[p].userId
                    /\ r.userId # procs[p].userId =>
                        \E i \in Attempts(p) :
                            /\ procs[p].attempted[i].about = r.id
                            /\ procs[p].attempted[i].userId = r.userId
            /\ \A i \in Attempts(p) \ procs[p].refused :
                \E e \in EmittedBy(p) :
                    /\ e.about = procs[p].attempted[i].about
                    /\ notifications[e.nid].userId
                            = procs[p].attempted[i].userId
                    /\ notifications[e.nid].message
                            = procs[p].attempted[i].message
            /\ Len(procs[p].emitted)
                    = Len(procs[p].attempted) - Cardinality(procs[p].refused)

\* The write of the submitter's notification about a record was refused and
\* the owner's notification about the same record, attempted after it, was
\* written, as was a notification about a record scanned later.
C18_Witness ==
    \E p \in Procs :
        /\ ScanEnded(p) /\ procs[p].didRead
        /\ \E i \in procs[p].refused, j \in Attempts(p), k \in Attempts(p) :
            /\ i < j /\ j < k
            /\ j \notin procs[p].refused /\ k \notin procs[p].refused
            /\ procs[p].attempted[i].about = procs[p].attempted[j].about
            /\ procs[p].attempted[k].about # procs[p].attempted[j].about
            /\ Len(procs[p].emitted) = Len(procs[p].attempted) - 1

\* C19: a scan that read the collection never matches the new record
\* against itself and creates no notification about it, although the
\* snapshot holds it; and every other record of the snapshot, with a
\* different id, whose title is identical to the new title and whose owner
\* is a different user is matched (the scan reads the collection only when
\* the title has a token longer than 3 characters).
C19_SelfExcludedByIdOnly ==
    \A p \in Procs :
        (ScanEnded(p) /\ procs[p].didRead) =>
            /\ procs[p].doc \notin procs[p].matched
            /\ \A e \in EmittedBy(p) : e.about # procs[p].doc
            /\ \A i \in Attempts(p) :
                    procs[p].attempted[i].about # procs[p].doc
            /\ \A r \in SnapshotOf(p) :
                (/\ r.id # procs[p].doc
                 /\ r.title = procs[p].title
                 /\ r.userId # procs[p].userId)
                => r.id \in procs[p].matched

\* "Lost Brown Wallet" was submitted while another user's "Lost Brown Wallet"
\* was in the store: the snapshot holds both, the other user's record is
\* matched and the new one is not.
C19_Witness ==
    \E p \in Procs :
        /\ ScanEnded(p) /\ procs[p].didRead
        /\ procs[p].title = LostBrownWallet
        /\ \E r \in SnapshotOf(p), s \in SnapshotOf(p) :
            /\ s.id = procs[p].doc
            /\ r.id # procs[p].doc
            /\ r.title = procs[p].title
            /\ r.userId # procs[p].userId
            /\ r.id \in procs[p].matched
            /\ s.id \notin procs[p].matched

\* C20: within one scan, for every record of the snapshot and every party,
\* at most one notification about that record is attempted for, and at most
\* one is created for, that party; and when a matched record is owned by the
\* submitter and no write of the scan failed, exactly one notification about
\* it is created, addressed to the submitter.
C20_OneNotificationPerPartyAndPair ==
    \A p \in Procs :
        (ScanEnded(p) /\ procs[p].didRead) =>
            \A r \in SnapshotOf(p) :
                /\ \A u \in Users :
                    /\ Cardinality({i \in Attempts(p) :
                            /\ procs[p].attempted[i].about = r.id
                            /\ procs[p].attempted[i].userId = u}) <= 1
                    /\ Cardinality(EmittedFor(p, r.id, u)) <= 1
                /\ (/\ r.id \in procs[p].matched
                    /\ r.userId = procs[p].userId
                    /\ procs[p].lost = 0)
                   => /\ Cardinality({e \in EmittedBy(p) : e.about = r.id}) = 1
                      /\ Cardinality(EmittedFor(p, r.id, procs[p].userId)) = 1

\* The submitter's own earlier "Found Brown Wallet Downtown" matched the new
\* "Lost Brown Wallet" and the scan created one notification about it.
C20_Witness ==
    \E p \in Procs :
        /\ ScanEnded(p) /\ procs[p].didRead /\ procs[p].lost = 0
        /\ procs[p].title = LostBrownWallet
        /\ \E r \in SnapshotOf(p) :
            /\ r.title = FoundBrownWalletDowntown
            /\ r.userId = procs[p].userId
            /\ r.id \in procs[p].matched
            /\ Cardinality({e \in EmittedBy(p) : e.about = r.id}) = 1

\* History only: the broadcasts whose fan-out has run, the accounts a
\* broadcast read with the role "user", and the notifications it created
\* for an account.
FannedOut(p) ==
    /\ procs[p].op = "broadcast"
    /\ procs[p].pc \in {"awaitAll", "return"}
    /\ procs[p].didRead

RoleUser(p) == {a \in DOMAIN procs[p].users : procs[p].users[a] = "user"}

BroadcastTo(p, a) ==
    {e \in EmittedBy(p) : notifications[e.nid].userId = a}

AttemptsTo(p, a) == {i \in Attempts(p) : procs[p].attempted[i].userId = a}

\* C15 (as stated): no core operation lets a store failure escape: here,
\* the admin broadcast never ends by the rejection of its promise.
C15_NoFailureEscapes ==
    \A p \in Procs :
        procs[p].op = "broadcast" => procs[p].pc # "rejected"

\* C17: a broadcast whose field, trimmed, is empty reads nothing and writes
\* nothing.  Any other broadcast attempts exactly one notification for each
\* account that its read of the users collection shows with the role "user"
\* and none for any other account; every attempt whose write the store did
\* not refuse has created exactly one notification for its account, unread,
\* of category "info", carrying the trimmed message; and a refused write
\* leaves its own account without one and no other.
C17_BroadcastOnePerUserRole ==
    \A p \in Procs :
        /\ (procs[p].op = "broadcast" /\ procs[p].msg = <<>>) =>
                /\ procs[p].pc = "return"
                /\ ~procs[p].didRead
                /\ procs[p].emitted = <<>>
        /\ FannedOut(p) =>
            \A i \in 1..Len(Accounts) :
                LET a == Accounts[i] IN
                /\ Cardinality(AttemptsTo(p, a))
                        = IF a \in RoleUser(p) THEN 1 ELSE 0
                /\ Cardinality(BroadcastTo(p, a))
                        = IF a \in RoleUser(p)
                             /\ AttemptsTo(p, a) \cap procs[p].refused = {}
                          THEN 1 ELSE 0
                /\ \A e \in BroadcastTo(p, a) :
                        /\ notifications[e.nid].message = procs[p].msg
                        /\ notifications[e.nid].type = "info"
                        /\ notifications[e.nid].read = FALSE

\* A broadcast of " Hi " read two accounts with the role "user" and an
\* admin: the write for the first user was refused, the second user has the
\* notification "Hi", the admin has none.
C17_Witness ==
    \E p \in Procs :
        /\ FannedOut(p)
        /\ procs[p].msg = <<"H", "i">>
        /\ RoleUser(p) = {"u1", "u2"}
        /\ "a1" \in DOMAIN procs[p].users
        /\ procs[p].users["a1"] = "admin"
        /\ AttemptsTo(p, "u1") \subseteq procs[p].refused
        /\ BroadcastTo(p, "u1") = {}
        /\ Cardinality(BroadcastTo(p, "u2")) = 1
        /\ BroadcastTo(p, "a1") = {}

\* C12: on each dashboard no listener is subscribed while a point-in-time
\* read of the stats is in flight, and once a live listener update has
\* written a card, no point-in-time read writes that card again: from then
\* on the card changes only in a step that hands items to that card's
\* listener callback, and shows the count of those items.
C12_LiveCounterNeverOverwrittenByRead ==
    /\ [](view.page \in DashPages =>
            (view.open # {} => view.load = "done" /\ view.pending = {}))
    /\ [][view.page \in DashPages =>
            \A card \in StatCards(view.page) :
                view.wrote[card] = "live" =>
                    /\ view'.wrote[card] = "live"
                    /\ view'.stat[card] # view.stat[card] =>
                        /\ delivered'.listener = ListenerOf(view.page, card)
                        /\ view'.stat[card]
                                = LiveCount(card, delivered'.docs)]_vars

\* The point-in-time read counted 3 unread notifications, the first live
\* snapshot held 4, and the card shows 4.
C12_Witness ==
    /\ view.page = "user"
    /\ view.size["statNotif"] = 3
    /\ view.wrote["statNotif"] = "live"
    /\ view.stat["statNotif"] = 4
    /\ delivered.kind = "snapshot"
    /\ delivered.listener = "listenNotifications"
    /\ Len(delivered.docs) = 4

\* C13 (as stated): once the view is torn down, by the page being left or by
\* initDashboard ending in its catch block, no subscription that the
\* dashboard acquired is left with its cancel handle not invoked.
C13_SubscriptionsReleasedOnTeardown ==
    (view.page \in DashPages /\ view.pc \in {"left", "caught"})
        => view.open = {}

\* C14 (as stated): a step in which the store reports a transport error on
\* a live listener hands the listener's callback the empty sequence, once; it
\* leaves the subscriptions and the cancel handles as they were (the
\* component cancels nothing and subscribes nothing), starts no call and no
\* point-in-time read, and writes nothing to the store; the card of the
\* listener shows the count of the empty sequence.
C14_ErrorHandsEmptyOnceAndKeepsSubscription ==
    [][(view.page \in DashPages /\ delivered'.kind = "error"
            /\ <<view, delivered>>' # <<view, delivered>>) =>
        /\ delivered'.docs = <<>>
        /\ delivered'.listener \in view.open
        /\ view'.open = view.open
        /\ view'.unsubscribers = view.unsubscribers
        /\ view'.pc = view.pc
        /\ view'.load = view.load
        /\ view'.pending = view.pending
        /\ procs' = procs
        /\ storeVars' = storeVars
        /\ \A card \in StatCards(view.page) :
            IF card = CardOf(view.page, delivered'.listener)
            THEN view'.stat[card] = 0 /\ view'.wrote[card] = "live"
            ELSE view'.stat[card] = view.stat[card]
                 /\ view'.wrote[card] = view.wrote[card]]_vars

(***************************************************************************)
(* C21: markOneRead is idempotent.  A markOneRead(id) call on a            *)
(* notification that is already read leaves the store as it was; and after *)
(* a markOneRead(id) call that changed the store the notification is read  *)
(* and one more update of it changes nothing, so that two calls on an      *)
(* unread notification leave the store that one call leaves.               *)
(***************************************************************************)
C21_MarkOneReadIdempotent ==
    [][\A id \in DOMAIN notifications :
        markOneRead(id) =>
            /\ notifications[id].read => storeVars' = storeVars
            /\ notifications' # notifications =>
                    /\ notifications'[id].read
                    /\ UpdateRead(notifications', id) = notifications']_vars

\* A notification is read and no markAllRead call was ever started: a
\* markOneRead call has set it, and a further call finds it read.
C21_Witness ==
    /\ hist.calls = 0
    /\ \E id \in DOMAIN notifications : notifications[id].read
    /\ \E id \in DOMAIN notifications : ~notifications[id].read

(***************************************************************************)
(* C22 (as stated): every notification in the store has a category that is *)
(* one of complaint, lostfound, match and info.                            *)
(***************************************************************************)
Categories == {"complaint", "lostfound", "match", "info"}

C22_CategoryInEnum ==
    \A n \in DOMAIN notifications : notifications[n].type \in Categories

(***************************************************************************)
(* C23: the core never deletes a document.  In every step of every         *)
(* operation (submissions, registrations, status updates, matching scans,  *)
(* broadcasts, mark-read calls, the server's acknowledgements) each        *)
(* collection keeps every identifier it had, and every record and every    *)
(* notification keeps its userId.                                          *)
(***************************************************************************)
KeepsDocuments(coll, after) ==
    /\ DOMAIN coll \subseteq DOMAIN after
    /\ \A id \in DOMAIN coll : after[id].userId = coll[id].userId

C23_NeverDeletesNorReassigns ==
    [][/\ KeepsDocuments(notifications, notifications')
       /\ KeepsDocuments(lost_found_items, lost_found_items')
       /\ KeepsDocuments(complaints, complaints')
       /\ KeepsDocuments(volunteers, volunteers')]_vars

\* A status update changed a record's status and notified the owner, and
\* the owner has marked that notification read before the call returned.
C23_Witness ==
    \E p \in Procs :
        /\ IsStatusUpdate(p)
        /\ procs[p].pc = "return"
        /\ ~procs[p].failed
        /\ procs[p].oldStatus # procs[p].newStatus
        /\ RecordOf(p).status = procs[p].newStatus
        /\ \E n \in procs[p].created : notifications[n].read

(***************************************************************************)
(* C24: the check-then-act race of registerVolunteer.  Two calls for the   *)
(* same (userId, eventId) that have both passed the existence check, each  *)
(* on a snapshot taken before the other's write, have each added a record  *)
(* of its own, so the store holds two records for the pair; and a call     *)
(* that has written returns true.  The witness is the end of such an       *)
(* interleaving: two calls, both returned, two records for the pair.       *)
(***************************************************************************)
Raced(p, q) ==
    /\ p # q
    /\ procs[p].op = "registerVolunteer" /\ procs[q].op = "registerVolunteer"
    /\ procs[p].userId = procs[q].userId
    /\ procs[p].eventId = procs[q].eventId
    /\ procs[p].pc = "awaitAdd" /\ procs[q].pc = "awaitAdd"

C24_RaceWritesTwoRecords ==
    /\ [](\A p, q \in Procs :
            Raced(p, q) =>
                /\ procs[p].snap = {} /\ procs[q].snap = {}
                /\ procs[p].doc # procs[q].doc
                /\ {procs[p].doc, procs[q].doc} \subseteq
                        RegistrationQuery(procs[p].userId, procs[p].eventId)
                /\ Registered(procs[p].userId, procs[p].eventId) >= 2)
    /\ [][\A p \in Procs :
            (/\ procs[p].op = "registerVolunteer"
             /\ procs[p].pc = "awaitAdd"
             /\ procs'[p].op = "idle")
            => LET k == <<procs[p].userId, procs[p].eventId>> IN
               /\ hist'.reg[k].last.valid
               /\ hist'.reg[k].last.ret
               /\ ~hist'.reg[k].last.failed]_vars

\* Two calls were started, both for the same pair and in flight together;
\* both have returned, the last of them true after starting with no record
\* for the pair, and the pair has two records.
C24_Witness ==
    \E k \in RegistrationKeys :
        /\ hist.calls = 2
        /\ \A p \in Procs : IsIdle(p)
        /\ hist.reg[k].overlapped
        /\ hist.reg[k].last.valid
        /\ hist.reg[k].last.ret
        /\ hist.reg[k].last.n0 = 0
        /\ hist.reg[k].last.n1 = 2
        /\ Registered(k[1], k[2]) = 2

(***************************************************************************)
(* C25: markAllRead(userId) sets read exactly the notifications of the     *)
(* user that were unread when its query ran.  The query selects the user's *)
(* unread notifications of that moment; the commit sets those read and     *)
(* leaves every other notification as it is, so one created for the user   *)
(* after the query stays unread, and a listener snapshot taken after the   *)
(* commit can count it.                                                    *)
(***************************************************************************)
C25_FlipsTheUnreadOfItsQuery ==
    /\ [][\A p \in Procs :
            (/\ procs[p].op = "markAllRead"
             /\ procs[p].pc = "getDocs"
             /\ procs'[p].op = "markAllRead"
             /\ procs'[p].pc = "commit")
            => procs'[p].sel =
                    {id \in DOMAIN notifications :
                        /\ notifications[id].userId = procs[p].userId
                        /\ ~notifications[id].read}]_vars
    /\ [][\A p \in Procs :
            (/\ procs[p].op = "markAllRead"
             /\ procs[p].pc = "commit"
             /\ procs'[p].op = "markAllRead"
             /\ procs'[p].pc = "committed")
            => /\ DOMAIN notifications' = DOMAIN notifications
               /\ \A id \in DOMAIN notifications :
                    /\ notifications'[id].read =
                            (notifications[id].read \/ id \in procs[p].sel)
                    /\ [notifications'[id] EXCEPT !.read = FALSE] =
                            [notifications[id] EXCEPT !.read = FALSE]]_vars

\* A markAllRead call for u has committed a batch that set a notification
\* read; a notification for u that its query did not select, created after
\* it, is unread; and the listener of u hands over a snapshot with a
\* non-zero unread count.
C25_Witness ==
    \E p \in Procs :
        /\ procs[p].op = "markAllRead"
        /\ procs[p].pc = "committed"
        /\ procs[p].applied # {}
        /\ \E id \in DOMAIN notifications :
                /\ id \notin procs[p].sel
                /\ \A s \in procs[p].sel : id > s
                /\ notifications[id].userId = procs[p].userId
                /\ ~notifications[id].read
        /\ delivered.listener = "listenNotifications"
        /\ delivered.kind = "snapshot"
        /\ delivered.userId = procs[p].userId
        /\ UnreadCount(delivered.docs) > 0

(***************************************************************************)
(* C26: markAllRead(userId) changes only notifications of userId.  No step *)
(* of a markAllRead call (its query, its commit, its return or its         *)
(* rejection) changes any field of a notification addressed to another     *)
(* user, whatever else is in flight.                                       *)
(***************************************************************************)
C26_OtherUsersNotificationsUntouched ==
    [][\A p \in Procs :
        (/\ procs[p].op = "markAllRead"
         /\ \/ procs'[p].op # "markAllRead"
            \/ procs'[p].pc # procs[p].pc)
        => \A id \in DOMAIN notifications :
                notifications[id].userId # procs[p].userId
                => /\ id \in DOMAIN notifications'
                   /\ notifications'[id] = notifications[id]]_vars

\* A markAllRead call has committed a batch that set a notification read
\* while an older notification of another user was unread, and still is.
C26_Witness ==
    \E p \in Procs :
        /\ procs[p].op = "markAllRead"
        /\ procs[p].pc = "committed"
        /\ procs[p].applied # {}
        /\ \E id \in DOMAIN notifications :
                /\ notifications[id].userId # procs[p].userId
                /\ ~notifications[id].read
                /\ \E s \in procs[p].applied : id < s

(***************************************************************************)
(* C27: two users submit, concurrently, items whose titles share a keyword *)
(* longer than 3 characters, and no store operation fails.  Then at least  *)
(* one of the two scans has the other item in its snapshot, each of the    *)
(* two users has at least one match notification, and if both scans have   *)
(* the other item each user has two.                                       *)
(***************************************************************************)
SharesKeyword(t1, t2) ==
    \E i \in 1..Len(Keywords(t1)), j \in 1..Len(Keywords(t2)) :
        Keywords(t1)[i] = Keywords(t2)[j]

\* The call has reached its return statement and none of its store
\* operations failed.
DoneUnfailed(p) ==
    /\ procs[p].op = "submitLostFoundItem"
    /\ procs[p].pc = "return"
    /\ procs[p].ret
    /\ procs[p].didRead
    /\ procs[p].lost = 0

Sees(p, q) ==
    \E i \in 1..Len(procs[p].snap) : procs[p].snap[i].id = procs[q].doc

MatchesFor(userId) ==
    {n \in DOMAIN notifications :
        /\ notifications[n].userId = userId
        /\ notifications[n].type = "match"}

C27_ConcurrentSubmissionsBothNotified ==
    \A p, q \in Procs :
        (/\ p # q
         /\ DoneUnfailed(p) /\ DoneUnfailed(q)
         /\ procs[p].userId # procs[q].userId
         /\ SharesKeyword(procs[p].title, procs[q].title))
        => /\ Sees(p, q) \/ Sees(q, p)
           /\ Cardinality(MatchesFor(procs[p].userId)) >= 1
           /\ Cardinality(MatchesFor(procs[q].userId)) >= 1
           /\ (Sees(p, q) /\ Sees(q, p))
                => /\ Cardinality(MatchesFor(procs[p].userId)) = 2
                   /\ Cardinality(MatchesFor(procs[q].userId)) = 2

\* Both calls are done, unfailed, by two users with titles that share a
\* keyword; only one scan has seen the other item, and each user has one
\* match notification.
C27_Witness ==
    \E p, q \in Procs :
        /\ p # q
        /\ DoneUnfailed(p) /\ DoneUnfailed(q)
        /\ procs[p].userId # procs[q].userId
        /\ procs[p].title # procs[q].title
        /\ SharesKeyword(procs[p].title, procs[q].title)
        /\ Sees(p, q) /\ ~Sees(q, p)
        /\ Cardinality(MatchesFor(procs[p].userId)) = 1
        /\ Cardinality(MatchesFor(procs[q].userId)) = 1

(***************************************************************************)
(* C28: submitLostFoundItem returns true whenever the write of its item    *)
(* succeeded, whether or not the scan's read or a match notification's     *)
(* write failed afterwards; and when the image upload or the item write    *)
(* fails it returns false, having written no item and no notification.     *)
(***************************************************************************)
Written(p) ==
    /\ procs[p].doc \in DOMAIN lost_found_items
    /\ lost_found_items[procs[p].doc].userId = procs[p].userId
    /\ lost_found_items[procs[p].doc].title = procs[p].title

C28_TrueIffItemWritten ==
    /\ [](\A p \in Procs :
            (procs[p].op = "submitLostFoundItem" /\ procs[p].pc = "return")
            => /\ procs[p].ret <=> Written(p)
               /\ ~procs[p].ret =>
                    /\ procs[p].doc = 0
                    /\ ~procs[p].didRead
                    /\ procs[p].attempted = <<>>
                    /\ procs[p].emitted = <<>>)
    /\ [][\A p \in Procs :
            (/\ procs[p].op = "submitLostFoundItem"
             /\ procs'[p].op = "submitLostFoundItem"
             /\ procs'[p].pc = "return"
             /\ ~procs'[p].ret)
            => storeVars' = storeVars]_vars

\* The item was written, the scan found matches and the store refused a
\* notification: the call is about to return true.
C28_Witness ==
    \E p \in Procs :
        /\ procs[p].op = "submitLostFoundItem"
        /\ procs[p].pc = "return"
        /\ procs[p].ret
        /\ Written(p)
        /\ procs[p].lost > 0

(***************************************************************************)
(* C29: when the status write of updateComplaintStatus or                  *)
(* updateLostFoundStatus fails, the record keeps its status, no            *)
(* notification is created for the owner, and the call ends in its catch   *)
(* block and returns: the step of the failed write changes no collection   *)
(* and takes the call to its return, and the call then returns having      *)
(* created nothing.                                                        *)
(***************************************************************************)
C29_FailedStatusWriteChangesNothing ==
    /\ [][\A p \in Procs :
            (/\ IsStatusUpdate(p)
             /\ procs[p].pc = "updateDoc"
             /\ procs'[p] # procs[p]
             /\ ~(procs'[p].pc = "createNotification" /\ ~procs'[p].failed))
            => /\ procs'[p].pc = "return"
               /\ procs'[p].failed
               /\ procs'[p].created = {}
               /\ storeVars' = storeVars]_vars
    /\ [][\A p \in Procs :
            (IsStatusUpdate(p) /\ procs[p].failed /\ procs'[p] # procs[p])
            => /\ procs[p].pc = "return"
               /\ procs[p].created = {}
               /\ procs'[p] = Idle
               /\ storeVars' = storeVars]_vars

\* A status write has failed: the call is in its catch block, the record
\* has the status it had, not the one asked for, and the store holds no
\* notification.
C29_Witness ==
    \E p \in Procs :
        /\ IsStatusUpdate(p)
        /\ procs[p].pc = "return"
        /\ procs[p].failed
        /\ RecordOf(p).status # procs[p].newStatus
        /\ notifications = <<>>

(***************************************************************************)
(* C30: a dashboard starts its listeners only after protectPage has        *)
(* resolved, and protectPage resolves only for a signed-in user whose      *)
(* profile exists with the role the page requires.  For any other session  *)
(* the page never gets past protectPage: it loads no statistics, starts no *)
(* listener and holds no subscription.                                     *)
(***************************************************************************)
Admitted ==
    /\ view.session.signedIn
    /\ view.session.exists
    /\ view.session.role = view.page

C30_ListenersOnlyForTheRequiredRole ==
    view.page \in DashPages =>
        /\ (view.open # {} \/ view.unsubscribers # <<>>)
                => /\ view.pc \in {"ready", "caught", "left"}
                   /\ view.load = "done"
                   /\ Admitted
        /\ ~Admitted
                => /\ view.pc \in {"protectPage", "left", "unresolved"}
                   /\ view.load = "idle"
                   /\ view.open = {}
                   /\ view.unsubscribers = <<>>

\* A signed-in user whose profile has the other role has loaded the page:
\* protectPage has redirected, nothing was loaded and no listener started.
C30_Witness ==
    /\ view.page \in DashPages
    /\ view.session.signedIn
    /\ view.session.exists
    /\ view.session.role \in DashPages
    /\ view.session.role # view.page
    /\ view.pc = "left"
    /\ view.open = {}

====
